---- MODULE Spec2Model ----
(***************************************************************************)
(* Model of the virgo4-availability-ws request handlers.                   *)
(*                                                                         *)
(* Spec         : one GET /item/:id request handled by getAvailability,    *)
(*                one pipeline rule per step.                              *)
(* ReservesSpec : the course-reserve grouping functions                    *)
(*                extractInstructorReserves and extractCourseReserves      *)
(*                applied to the hits of one reserve search.               *)
(* ValidateSpec : one request handled by validateCourseReserves.           *)
(* CreateSpec   : one request handled by createCourseReserves.             *)
(* MapsSpec     : service startup (initMapLookups) followed by the map     *)
(*                enrichment of concurrently handled requests.             *)
(***************************************************************************)
EXTENDS Integers, Sequences, FiniteSets, TLC

VARIABLES
    pc,          \* position of the getAvailability handler
    ilsResult,   \* (bodyBytes, ilsErr) returned by ILSConnectorGet
    availResp,   \* the AvailabilityData document of the request
    solrResult,  \* what SolrGet returned to getSolrDoc
    solrDoc,     \* the SolrDocument returned by getSolrDoc
    v4Claims,    \* the caller's JWT claims
    applied,     \* the pipeline rules that have run on the document, in order
    response,    \* what the handler wrote to the gin context
    Maps,        \* svc.Maps
    MapLookups,  \* svc.MapLookups
    rpc,         \* position of the reserve search
    tgtType,     \* search type of the reserve search
    tgtQuery,    \* raw query string of the reserve search
    docs,        \* solr hits handed to the grouping function
    out,         \* the grouping function's return value
    searchResult,     \* (respBytes, solrErr) returned by SolrGet to searchReserves
    searchStatus,     \* status searchReserves wrote to the gin context, 0 for none
    vpc,              \* position of the validateCourseReserves handler
    validateResult,   \* (bodyBytes, ilsErr) returned by ILSConnectorPost
    validateClaims,   \* CanPlaceReserve of the caller of validateCourseReserves
    validateLookups,  \* what getSolrDoc returned for each entry looked up
    validateResp,     \* what validateCourseReserves wrote to the gin context
    cpc,              \* position of the createCourseReserves handler
    reserveReq,       \* the reserveRequest of createCourseReserves
    emails,           \* the renderings and sendings of the request, in order
    createResp,       \* what createCourseReserves wrote to the gin context
    boot,             \* position of the service startup (intializeService)
    mapFiles,         \* what the two map data files held at startup
    reqItems,         \* the item list of each request in map enrichment
    reqPos            \* the next item addMapInfo visits, for each request

vars == << pc, ilsResult, availResp, solrResult, solrDoc, v4Claims, applied,
           response, Maps, MapLookups, rpc, tgtType, tgtQuery, docs, out,
           searchResult, searchStatus, vpc, validateResult, validateClaims,
           validateLookups, validateResp, cpc, reserveReq, emails,
           createResp, boot, mapFiles, reqItems, reqPos >>

availVars == << pc, ilsResult, availResp, solrResult, solrDoc, v4Claims,
                applied, response, Maps, MapLookups >>

reserveVars == << rpc, tgtType, tgtQuery, docs, out, searchResult,
                  searchStatus >>

validateVars == << vpc, validateResult, validateClaims, validateLookups,
                   validateResp >>

createVars == << cpc, reserveReq, emails, createResp >>

mapVars == << boot, mapFiles, reqItems, reqPos >>

-----------------------------------------------------------------------------
(* Bounds of the model *)

\* longest request-option list of an inventory snapshot
MaxOpts == 3
\* longest item list of an inventory snapshot
MaxItems == 2
\* most hits of a reserve search
MaxDocs == 2
\* most reserve tags of all hits of a reserve search together
MaxTags == 3

-----------------------------------------------------------------------------
(* Strings: Go's strings.ToLower and a case-insensitive substring search *)

UpperToLower ==
    "A" :> "a" @@ "B" :> "b" @@ "C" :> "c" @@ "D" :> "d" @@ "E" :> "e" @@
    "F" :> "f" @@ "G" :> "g" @@ "H" :> "h" @@ "I" :> "i" @@ "J" :> "j" @@
    "K" :> "k" @@ "L" :> "l" @@ "M" :> "m" @@ "N" :> "n" @@ "O" :> "o" @@
    "P" :> "p" @@ "Q" :> "q" @@ "R" :> "r" @@ "S" :> "s" @@ "T" :> "t" @@
    "U" :> "u" @@ "V" :> "v" @@ "W" :> "w" @@ "X" :> "x" @@ "Y" :> "y" @@
    "Z" :> "z"

RECURSIVE ToLower(_)
ToLower(s) ==
    IF Len(s) = 0 THEN ""
    ELSE LET c == SubSeq(s, 1, 1)
         IN  (IF c \in DOMAIN UpperToLower THEN UpperToLower[c] ELSE c)
                 \o ToLower(SubSeq(s, 2, Len(s)))

\* strings.Index(s, sub): the 0-based position of the first occurrence, or -1
Index(s, sub) ==
    LET hits == { i \in 0..(Len(s) - Len(sub)) :
                      SubSeq(s, i + 1, i + Len(sub)) = sub }
    IN  IF hits = {} THEN -1
        ELSE CHOOSE i \in hits : \A j \in hits : i <= j

\* regexp.MustCompile("(?i)" + str).MatchString(a), for a str without
\* regular-expression metacharacters
MatchString(str, a) == Index(ToLower(a), ToLower(str)) # -1

RECURSIVE Split(_, _)
\* strings.Split(s, sep) for a non-empty sep
Split(s, sep) ==
    LET i == Index(s, sep)
    IN  IF i = -1 THEN << s >>
        ELSE << SubSeq(s, 1, i) >>
                 \o Split(SubSeq(s, i + Len(sep) + 1, Len(s)), sep)

contains(arr, str) ==
    IF Len(arr) = 0 THEN FALSE
    ELSE \E i \in 1..Len(arr) : MatchString(str, arr[i])

-----------------------------------------------------------------------------
(* Sequences *)

SeqsUpTo(S, n) == UNION { [1..k -> S] : k \in 0..n }

InjectiveSeqsUpTo(S, n) ==
    { s \in SeqsUpTo(S, n) : \A i, j \in 1..Len(s) : s[i] = s[j] => i = j }

\* append(s[:i], s[i+1:]...) for the 1-based index i
RemoveAt(s, i) == SubSeq(s, 1, i - 1) \o SubSeq(s, i + 1, Len(s))

RECURSIVE SelectSeq2(_, _)
\* the sub-sequence of the items whose library id is lib
SelectSeq2(items, lib) ==
    IF items = << >> THEN << >>
    ELSE (IF Head(items).LibraryID = lib THEN << Head(items) >> ELSE << >>)
             \o SelectSeq2(Tail(items), lib)

CountType(opts, t) == Cardinality({ i \in 1..Len(opts) : opts[i].Type = t })

-----------------------------------------------------------------------------
(* HTTP status codes used by the handlers *)

StatusOK == 200
StatusCreated == 201
StatusBadRequest == 400
StatusForbidden == 403
StatusNotFound == 404
StatusRequestTimeout == 408
StatusInternalServerError == 500
StatusServiceUnavailable == 503

-----------------------------------------------------------------------------
(* Data of the availability handler *)

\* a nil error, an unset string
Nil == "nil"

\* The zero value of Map inside an Item
NoMap == [Name |-> "", MapURL |-> ""]

\* Items of the circulation backend: two special-collections copies, one of
\* them with an item-level location note, and one circulating copy
InventoryItems ==
    { [Barcode |-> "X001", LibraryID |-> "SPEC-COLL", SCNotes |-> "",
       HomeLocationID |-> "SC-STACKS", Map |-> NoMap],
      [Barcode |-> "X002", LibraryID |-> "SPEC-COLL", SCNotes |-> "Box 7",
       HomeLocationID |-> "SC-IVY", Map |-> NoMap],
      [Barcode |-> "X003", LibraryID |-> "ALDERMAN", SCNotes |-> "",
       HomeLocationID |-> "STACKS", Map |-> NoMap] }

\* Items decoded from a stored-availability blob (ArchivesSpace containers)
StoredItems ==
    << [Barcode |-> "A001", LibraryID |-> "", SCNotes |-> "",
        HomeLocationID |-> "", Map |-> NoMap],
       [Barcode |-> "A002", LibraryID |-> "SPEC-COLL", SCNotes |-> "Shelf 3",
        HomeLocationID |-> "SC-STACKS", Map |-> NoMap] >>

\* The request-option types the circulation backend sends
SnapshotOptionTypes == {"hold", "scan"}

\* A request option as the circulation backend sends it
SnapshotOption(t) ==
    [Type |-> t, Label |-> "ILS " \o t, CreateURL |-> "/requests/" \o t,
     SignInRequired |-> TRUE, StreamingReserve |-> FALSE,
     ItemOptions |-> << >>]

\* AvailabilityData{}: the zero value of the document
EmptyAvailabilityData ==
    [ID |-> "", Display |-> {}, Items |-> << >>, RequestOptions |-> << >>]

\* The id of the requested title, and the id field of its catalog record
TitleID == "u100"

\* The documents the circulation backend can answer with
Snapshots ==
    { [ID |-> TitleID, Display |-> {}, Items |-> items, RequestOptions |-> opts] :
          items \in InjectiveSeqsUpTo(InventoryItems, MaxItems),
          opts \in { [i \in 1..Len(ts) |-> SnapshotOption(ts[i])] :
                         ts \in SeqsUpTo(SnapshotOptionTypes, MaxOpts) } }

\* The stored-availability field of a catalog record: the empty string, or a
\* text that encoding/json decodes completely ("ok"), rejects before
\* decoding anything ("syntax"), or decodes with a type error on one field,
\* which it skips while it decodes the rest ("type")
SCBlobs ==
    { [text |-> "", json |-> "syntax", items |-> << >>],
      [text |-> "[{A001},{A002}]", json |-> "ok", items |-> StoredItems],
      [text |-> "[{A001", json |-> "syntax", items |-> << >>],
      [text |-> "[{A001,on_shelf:7}]", json |-> "type",
       items |-> << StoredItems[1] >>] }

\* json.Unmarshal([]byte(blob), &scItems): the error and the decoded items
UnmarshalItems(blob) ==
    [err |-> blob.json # "ok",
     items |-> IF blob.json = "syntax" THEN << >> ELSE blob.items]

RECURSIVE Repeat(_, _)
\* n copies of the string s, one after the other
Repeat(s, n) == IF n = 0 THEN "" ELSE s \o Repeat(s, n - 1)

\* A local note of 1050 characters, longer than the 999 characters that
\* createAeonItemOptions keeps
LongNote == Repeat("box 0123456789;", 70)

\* A catalog record of the requested title
SolrDocument(etas, url, pool, loc, src, lib, notes, blob) ==
    [ID |-> TitleID, HathiETAS |-> etas, URL |-> url, Pool |-> pool,
     Location |-> loc, Source |-> src, Library |-> lib, LocalNotes |-> notes,
     SCAvailability |-> blob]

\* The catalog records of the model: every combination of emergency access,
\* special-collections library, local notes and stored availability, for a
\* record without pool and for a streaming video; three more records that
\* differ in the streaming-video signal alone; and a special-collections
\* record with one long local note
SolrDocuments ==
    { SolrDocument(eu[1], eu[2], pls[1], pls[2], pls[3], ln[1], ln[2], blob) :
          eu \in { << << >>, << >> >>,
                   << << "true" >>, << >> >>,
                   << << "true" >>, << "https://x", "https://y" >> >> },
          pls \in { << << >>, << >>, << >> >>,
                    << << "video" >>, << "Internet Materials" >>, << >> >> },
          ln \in { << << >>, << >> >>,
                   << << "Alderman", "Special Collections" >>, << >> >>,
                   << << "Alderman", "SPECIAL COLLECTIONS" >>,
                      << "SPECIAL COLLECTIONS: vault" >> >> },
          blob \in SCBlobs }
      \cup
    { SolrDocument(<< >>, << >>, pls[1], pls[2], pls[3], << >>, << >>,
                   [text |-> "", json |-> "syntax", items |-> << >>]) :
          pls \in { << << "catalog" >>, << >>, << "Avalon Media" >> >>,
                    << << "video" >>, << "Stacks" >>, << >> >>,
                    << << >>, << >>, << "Avalon Media" >> >> } }
      \cup
    { SolrDocument(<< >>, << >>, << "catalog" >>, << >>, << >>,
                   << "Special Collections" >>, << LongNote >>,
                   [text |-> "", json |-> "syntax", items |-> << >>]) }

\* The claims of a caller
V4Claims ==
    [HomeLibrary : {"HEALTHSCI", "ALDERMAN"}, CanPlaceReserve : BOOLEAN]

\* The map tables as initMapLookups loads them
LoadedMaps ==
    << [ID |-> "1", MapURL |-> "/maps/sc.png", Name |-> "Small Library"] >>

LoadedMapLookups ==
    << [CallNumberRange |-> "*", Location |-> "SC-STACKS", MapID |-> "1"],
       [CallNumberRange |-> "A-C", Location |-> "STACKS", MapID |-> "1"],
       [CallNumberRange |-> "*", Location |-> "SC-IVY", MapID |-> "9"] >>

-----------------------------------------------------------------------------
(* The backend calls *)

\* What httpClient.Do hands to handleAPIResponse: a transport error or a
\* response with a status and a body
TransportErrors == {"Timeout", "connection refused", "no such host"}

\* A response body: bytes that decode to `data`, or bytes that do not decode
\* (`data` is then the zero value, which no one reads)
Body(parses, data) == [nil |-> FALSE, parses |-> parses, data |-> data]

\* the nil byte slice returned in place of a body
NilBytes(body) == [body EXCEPT !.nil = TRUE, !.parses = FALSE]

\* returns (bytes, *RequestError); StatusCode 0 stands for a nil error
handleAPIResponse(err, status, body) ==
    IF err # Nil
    THEN [bytes |-> NilBytes(body),
          StatusCode |-> IF err = "Timeout" THEN StatusRequestTimeout
                         ELSE IF err = "connection refused"
                              THEN StatusServiceUnavailable
                              ELSE StatusBadRequest]
    ELSE IF status # StatusOK /\ status # StatusCreated
         THEN [bytes |-> NilBytes(body), StatusCode |-> status]
         ELSE [bytes |-> body, StatusCode |-> 0]

\* The outcomes of the inventory lookup
ILSConnectorGet ==
    LET garbage == Body(FALSE, EmptyAvailabilityData)
    IN  { handleAPIResponse(e, 0, garbage) : e \in TransportErrors }
          \cup { handleAPIResponse(Nil, st, garbage) :
                     st \in {StatusNotFound, StatusInternalServerError,
                             StatusServiceUnavailable} }
          \cup { handleAPIResponse(Nil, StatusOK, Body(TRUE, s)) :
                     s \in Snapshots }
          \cup { handleAPIResponse(Nil, StatusOK, garbage) }

\* The outcomes of the catalog lookup: the fetch fails, the payload does not
\* parse, or it parses to numFound and docs
SolrResponses ==
    { [NumFound |-> 0, Docs |-> << >>] }
      \cup { [NumFound |-> 1, Docs |-> << d >>] : d \in SolrDocuments }
      \cup { [NumFound |-> 2, Docs |-> << d, d >>] :
                 d \in { x \in SolrDocuments :
                            x.Source # << >> \/ x.Location = << "Stacks" >> } }

\* SolrResponse{}: the zero value
EmptySolrResponse == [NumFound |-> 0, Docs |-> << >>]

SolrGet ==
    LET garbage == Body(FALSE, EmptySolrResponse)
    IN  { handleAPIResponse(e, 0, garbage) : e \in {"Timeout"} }
          \cup { handleAPIResponse(Nil, StatusInternalServerError, garbage) }
          \cup { handleAPIResponse(Nil, StatusOK, garbage) }
          \cup { handleAPIResponse(Nil, StatusOK, Body(TRUE, r)) :
                     r \in SolrResponses }

\* json.Unmarshal(bytes, &v) into a zero value `zero`: nil or undecodable
\* bytes leave v at its zero value
Unmarshal(bytes, zero) ==
    IF bytes.nil \/ ~ bytes.parses THEN zero ELSE bytes.data

-----------------------------------------------------------------------------
(* The pipeline rules *)

DisplayLabels ==
    { << "library", "Library" >>,
      << "current_location", "Current Location" >>,
      << "call_number", "Call Number" >>,
      << "barcode", "Barcode" >> }

\* index of the first option of type t, 0 when there is none
FirstOfType(opts, t) ==
    LET hits == { i \in 1..Len(opts) : opts[i].Type = t }
    IN  IF hits = {} THEN 0 ELSE CHOOSE i \in hits : \A j \in hits : i <= j

\* index of the last option of type t, 0 when there is none
LastOfType(opts, t) ==
    LET hits == { i \in 1..Len(opts) : opts[i].Type = t }
    IN  IF hits = {} THEN 0 ELSE CHOOSE i \in hits : \A j \in hits : i >= j

\* the directLink option of the health-sciences rule; its URL is built from
\* catalog fields that the model does not hold
hsScan ==
    [Type |-> "directLink", Label |-> "Request a scan",
     CreateURL |-> "HSILLiadURL/illiad.dll?Action=10&Form=21",
     SignInRequired |-> FALSE, StreamingReserve |-> FALSE,
     ItemOptions |-> << >>]

\* updateHSLScanOptions without the removal loop of lines 184-191
updateHSLScanOptionsKeepScan(doc, result) ==
    [result EXCEPT !.RequestOptions = Append(@, hsScan)]

updateHSLScanOptions(doc, result) ==
    LET opts == result.RequestOptions
        i == FirstOfType(opts, "scan")
        kept == IF i = 0 THEN opts ELSE RemoveAt(opts, i)
    IN  [result EXCEPT !.RequestOptions = Append(kept, hsScan)]

videoReserveOption ==
    [Type |-> "videoReserve", Label |-> "Video reserve request",
     CreateURL |-> "", SignInRequired |-> TRUE, StreamingReserve |-> TRUE,
     ItemOptions |-> << >>]

\* solrDoc.Pool[0] on an empty pool list: index out of range
addStreamingVideoReservePanics(doc) == Len(doc.Pool) = 0

addStreamingVideoReserve(doc, result) ==
    IF (doc.Pool[1] = "video" /\ contains(doc.Location, "Internet materials"))
           \/ contains(doc.Source, "Avalon")
    THEN [result EXCEPT !.RequestOptions = Append(@, videoReserveOption)]
    ELSE result

\* processSCAvailabilityStored without the early return on an empty blob
processSCAvailabilityStoredNoReturn(result, doc) ==
    [result EXCEPT !.ID = doc.ID,
                   !.Items = @ \o UnmarshalItems(doc.SCAvailability).items]

processSCAvailabilityStored(result, doc) ==
    IF doc.SCAvailability.text = "" THEN result
    ELSE [result EXCEPT !.ID = doc.ID,
                        !.Items = @ \o UnmarshalItems(doc.SCAvailability).items]

\* the two prefix replacements and the trim of one local note
CleanNote(note) ==
    LET p1 == "SPECIAL COLLECTIONS: "
        p2 == "Harrison Small Special Collections,"
        n1 == IF Len(note) >= Len(p1) /\ SubSeq(note, 1, Len(p1)) = p1
              THEN SubSeq(note, Len(p1) + 1, Len(note)) ELSE note
        n2 == IF Len(n1) >= Len(p2) /\ SubSeq(n1, 1, Len(p2)) = p2
              THEN "H. Small," \o SubSeq(n1, Len(p2) + 1, Len(n1)) ELSE n1
    IN  n2

RECURSIVE JoinNotes(_)
JoinNotes(notes) ==
    IF notes = << >> THEN ""
    ELSE CleanNote(Head(notes)) \o ";\n" \o JoinNotes(Tail(notes))

MaxNotesLen == 999

\* AeonNotes that prefers the catalog local notes to the item's own note
AeonNotesLocalFirst(item, doc) ==
    IF Len(doc.LocalNotes) > 0
    THEN LET notes == JoinNotes(doc.LocalNotes)
         IN  IF Len(notes) > MaxNotesLen
             THEN SubSeq(notes, 1, MaxNotesLen) ELSE notes
    ELSE IF Len(item.SCNotes) > 0 THEN item.SCNotes
         ELSE "(no location notes)"

AeonNotes(item, doc) ==
    IF Len(item.SCNotes) > 0 THEN item.SCNotes
    ELSE IF Len(doc.LocalNotes) > 0
         THEN LET notes == JoinNotes(doc.LocalNotes)
              IN  IF Len(notes) > MaxNotesLen
                  THEN SubSeq(notes, 1, MaxNotesLen) ELSE notes
         ELSE "(no location notes)"

RECURSIVE createAeonItemOptionsFrom(_, _)
createAeonItemOptionsFrom(items, doc) ==
    IF items = << >> THEN << >>
    ELSE LET item == Head(items)
         IN  (IF item.LibraryID = "SPEC-COLL" \/ doc.SCAvailability.text # ""
              THEN << [Barcode |-> item.Barcode,
                       Location |-> item.HomeLocationID,
                       SCNotes |-> AeonNotes(item, doc)] >>
              ELSE << >>) \o createAeonItemOptionsFrom(Tail(items), doc)

\* createAeonItemOptions that chooses by the library id alone
createAeonItemOptionsSpecColl(result, doc) ==
    createAeonItemOptionsFrom(SelectSeq2(result.Items, "SPEC-COLL"), doc)

createAeonItemOptions(result, doc) ==
    createAeonItemOptionsFrom(result.Items, doc)

\* lines 260-272 of appendAeonRequestOptions, after the archival merge
appendAeonRequestOptions(doc, result) ==
    IF ~ contains(doc.Library, "Special Collections") THEN result
    ELSE [result EXCEPT !.RequestOptions =
              Append(@, [Type |-> "aeon",
                         Label |-> "Request this in Special Collections",
                         CreateURL |-> "https://virginia.aeon.atlas-sys.com/logon",
                         SignInRequired |-> FALSE, StreamingReserve |-> FALSE,
                         ItemOptions |-> createAeonItemOptions(result, doc)])]

hathiOption(doc) ==
    [Type |-> "directLink",
     Label |-> IF Len(doc.URL) > 0 THEN "Read via HathiTrust" ELSE "",
     CreateURL |-> IF Len(doc.URL) > 0 THEN doc.URL[1] ELSE "",
     SignInRequired |-> FALSE, StreamingReserve |-> FALSE,
     ItemOptions |-> << >>]

\* removeETASRequestOptions that makes room for the link by shifting the
\* options from the hold slot on (append(opts[:i+1], opts[i:]...)) and does
\* not overwrite the slot: the hold option is now in the list twice
removeETASRequestOptionsShift(doc, result) ==
    IF Len(doc.HathiETAS) > 0
    THEN LET opts == result.RequestOptions
             holdID == LastOfType(opts, "hold")
         IN  [result EXCEPT
                  !.RequestOptions =
                      IF holdID # 0
                      THEN SubSeq(opts, 1, holdID)
                               \o SubSeq(opts, holdID, Len(opts))
                      ELSE Append(opts, hathiOption(doc)),
                  !.Items = SelectSeq2(@, "SPEC-COLL")]
    ELSE result

\* removeETASRequestOptions without the replace branch: always appends
removeETASRequestOptionsAppend(doc, result) ==
    IF Len(doc.HathiETAS) > 0
    THEN [result EXCEPT
              !.RequestOptions = Append(@, hathiOption(doc)),
              !.Items = SelectSeq2(@, "SPEC-COLL")]
    ELSE result

\* removeETASRequestOptions that leaves the item list as it is
removeETASRequestOptionsKeepItems(doc, result) ==
    IF Len(doc.HathiETAS) > 0
    THEN LET opts == result.RequestOptions
             holdID == LastOfType(opts, "hold")
         IN  [result EXCEPT
                  !.RequestOptions =
                      IF holdID # 0
                      THEN [opts EXCEPT ![holdID] = hathiOption(doc)]
                      ELSE Append(opts, hathiOption(doc))]
    ELSE result

removeETASRequestOptions(doc, result) ==
    IF Len(doc.HathiETAS) > 0
    THEN LET opts == result.RequestOptions
             holdID == LastOfType(opts, "hold")
         IN  [result EXCEPT
                  !.RequestOptions =
                      IF holdID # 0
                      THEN [opts EXCEPT ![holdID] = hathiOption(doc)]
                      ELSE Append(opts, hathiOption(doc)),
                  !.Items = SelectSeq2(@, "SPEC-COLL")]
    ELSE result

\* the index of the map entry findMap points to, 0 for a nil pointer
findMap(maps, id) ==
    LET hits == { i \in 1..Len(maps) : maps[i].ID = id }
    IN  IF hits = {} THEN 0 ELSE CHOOSE i \in hits : \A j \in hits : i <= j

\* addMapInfo's loop body that takes any wildcard row of the location, not
\* the first row of the location
addMapInfoItemAnyWildcard(item, maps, lookups) ==
    LET hits == { i \in 1..Len(lookups) :
                      /\ lookups[i].Location = item.HomeLocationID
                      /\ lookups[i].CallNumberRange = "*" }
        named == [item EXCEPT !.Map.Name = "N/A"]
    IN  IF hits = {} THEN named
        ELSE LET lookup == lookups[CHOOSE i \in hits : \A j \in hits : i <= j]
                 match == findMap(maps, lookup.MapID)
             IN  IF match # 0
                 THEN [named EXCEPT !.Map = [Name |-> maps[match].Name,
                                             MapURL |-> maps[match].MapURL]]
                 ELSE named

\* the body of addMapInfo's loop for one item
addMapInfoItem(item, maps, lookups) ==
    LET hits == { i \in 1..Len(lookups) :
                      lookups[i].Location = item.HomeLocationID }
        named == [item EXCEPT !.Map.Name = "N/A"]
    IN  IF hits = {} THEN named
        ELSE LET lookup == lookups[CHOOSE i \in hits : \A j \in hits : i <= j]
                 match == findMap(maps, lookup.MapID)
             IN  IF lookup.CallNumberRange = "*" /\ match # 0
                 THEN [named EXCEPT !.Map = [Name |-> maps[match].Name,
                                             MapURL |-> maps[match].MapURL]]
                 ELSE named

addMapInfo(items, maps, lookups) ==
    [i \in 1..Len(items) |-> addMapInfoItem(items[i], maps, lookups)]

-----------------------------------------------------------------------------
(* The getAvailability handler, one step per rule *)

\* SolrDocument{}: the zero value
EmptySolrDocument ==
    [ID |-> "", HathiETAS |-> << >>, URL |-> << >>, Pool |-> << >>,
     Location |-> << >>, Source |-> << >>, Library |-> << >>,
     LocalNotes |-> << >>,
     SCAvailability |-> [text |-> "", json |-> "syntax", items |-> << >>]]

NoResponse == [status |-> 0, body |-> Nil]

\* gin's Recovery middleware answers a panicking handler with status 500
RecoveredPanic ==
    [status |-> StatusInternalServerError, body |-> "panic: index out of range"]

\* The rule names, in the order of section 4.1
RuleOrder ==
    << "seed display labels", "health-sciences scan substitution",
       "streaming-reserve addition", "archival item merge",
       "special-collections Aeon option", "emergency-access override",
       "map enrichment" >>

AvailInit ==
    /\ pc = "start"
    /\ ilsResult = handleAPIResponse(Nil, StatusOK,
                                     Body(FALSE, EmptyAvailabilityData))
    /\ availResp = EmptyAvailabilityData
    /\ solrResult = handleAPIResponse(Nil, StatusOK,
                                      Body(FALSE, EmptySolrResponse))
    /\ solrDoc = EmptySolrDocument
    /\ v4Claims = [HomeLibrary |-> "", CanPlaceReserve |-> FALSE]
    /\ applied = << >>
    /\ response = NoResponse
    /\ Maps = LoadedMaps
    /\ MapLookups = LoadedMapLookups

\* FetchInventory that returns on every inventory error, 404 included
FetchInventoryNo404 ==
    /\ pc = "start"
    /\ \E r \in ILSConnectorGet :
          /\ ilsResult' = r
          /\ IF r.StatusCode # 0
             THEN /\ response' =
                         [status |-> r.StatusCode,
                          body |-> "There was a problem retrieving availability. Please try again later."]
                  /\ pc' = "done"
                  /\ UNCHANGED availResp
             ELSE /\ availResp' = Unmarshal(r.bytes, EmptyAvailabilityData)
                  /\ pc' = "seed"
                  /\ UNCHANGED response
    /\ UNCHANGED << solrResult, solrDoc, v4Claims, applied, Maps, MapLookups >>
    /\ UNCHANGED << reserveVars, validateVars, createVars, mapVars >>

\* getAvailability, lines 113-136: the inventory lookup and its decoding
FetchInventory ==
    /\ pc = "start"
    /\ \E r \in ILSConnectorGet :
          /\ ilsResult' = r
          /\ IF r.StatusCode # 0 /\ r.StatusCode # StatusNotFound
             THEN /\ response' =
                         [status |-> r.StatusCode,
                          body |-> "There was a problem retrieving availability. Please try again later."]
                  /\ pc' = "done"
                  /\ UNCHANGED availResp
             ELSE IF r.StatusCode # 0 /\ r.StatusCode = StatusServiceUnavailable
                  THEN /\ response' =
                              [status |-> r.StatusCode,
                               body |-> "Availability information is currently unavailable. Please try again later."]
                       /\ pc' = "done"
                       /\ UNCHANGED availResp
                  ELSE /\ availResp' = Unmarshal(r.bytes, EmptyAvailabilityData)
                       /\ pc' = "seed"
                       /\ UNCHANGED response
    /\ UNCHANGED << solrResult, solrDoc, v4Claims, applied, Maps, MapLookups >>
    /\ UNCHANGED << reserveVars, validateVars, createVars, mapVars >>

\* getAvailability, lines 138-143
SeedDisplayLabels ==
    /\ pc = "seed"
    /\ availResp' = [availResp EXCEPT !.Display = DisplayLabels]
    /\ applied' = Append(applied, RuleOrder[1])
    /\ pc' = "solr"
    /\ UNCHANGED << ilsResult, solrResult, solrDoc, v4Claims, response, Maps,
                    MapLookups >>
    /\ UNCHANGED << reserveVars, validateVars, createVars, mapVars >>

\* getSolrDoc: SolrResp.Response.Docs[0] panics on an empty Docs
GetSolrDoc ==
    /\ pc = "solr"
    /\ \E r \in SolrGet :
          LET SolrResp == Unmarshal(r.bytes, EmptySolrResponse)
          IN  /\ solrResult' = r
              /\ IF Len(SolrResp.Docs) = 0
                 THEN /\ response' = RecoveredPanic
                      /\ pc' = "done"
                      /\ UNCHANGED solrDoc
                 ELSE /\ solrDoc' = SolrResp.Docs[1]
                      /\ pc' = "claims"
                      /\ UNCHANGED response
    /\ UNCHANGED << ilsResult, availResp, v4Claims, applied, Maps, MapLookups >>
    /\ UNCHANGED << reserveVars, validateVars, createVars, mapVars >>

\* getAvailability, lines 147-150
ScanSubstitution ==
    /\ pc = "claims"
    /\ \E c \in V4Claims :
          /\ v4Claims' = c
          /\ IF c.HomeLibrary = "HEALTHSCI"
             THEN /\ availResp' = updateHSLScanOptions(solrDoc, availResp)
                  /\ applied' = Append(applied, RuleOrder[2])
             ELSE UNCHANGED << availResp, applied >>
    /\ pc' = "stream"
    /\ UNCHANGED << ilsResult, solrResult, solrDoc, response, Maps, MapLookups >>
    /\ UNCHANGED << reserveVars, validateVars, createVars, mapVars >>

\* getAvailability, lines 151-153
StreamingReserve ==
    /\ pc = "stream"
    /\ IF v4Claims.CanPlaceReserve
       THEN IF addStreamingVideoReservePanics(solrDoc)
            THEN /\ response' = RecoveredPanic
                 /\ pc' = "done"
                 /\ UNCHANGED << availResp, applied >>
            ELSE /\ availResp' = addStreamingVideoReserve(solrDoc, availResp)
                 /\ applied' = Append(applied, RuleOrder[3])
                 /\ pc' = "merge"
                 /\ UNCHANGED response
       ELSE /\ pc' = "merge"
            /\ UNCHANGED << availResp, applied, response >>
    /\ UNCHANGED << ilsResult, solrResult, solrDoc, v4Claims, Maps, MapLookups >>
    /\ UNCHANGED << reserveVars, validateVars, createVars, mapVars >>

\* appendAeonRequestOptions, line 258
ArchivalMerge ==
    /\ pc = "merge"
    /\ availResp' = processSCAvailabilityStored(availResp, solrDoc)
    /\ applied' = Append(applied, RuleOrder[4])
    /\ pc' = "aeon"
    /\ UNCHANGED << ilsResult, solrResult, solrDoc, v4Claims, response, Maps,
                    MapLookups >>
    /\ UNCHANGED << reserveVars, validateVars, createVars, mapVars >>

\* A handler that calls removeETASRequestOptions before
\* appendAeonRequestOptions: this step, taken at "aeon", hands over to the
\* Aeon step only after the archival merge has been followed by the override
AeonOptionAfterOverride ==
    /\ pc = "aeon"
    /\ availResp' = appendAeonRequestOptions(
                        solrDoc, removeETASRequestOptions(solrDoc, availResp))
    /\ applied' = applied \o << RuleOrder[6], RuleOrder[5] >>
    /\ pc' = "map"
    /\ UNCHANGED << ilsResult, solrResult, solrDoc, v4Claims, response, Maps,
                    MapLookups >>
    /\ UNCHANGED << reserveVars, validateVars, createVars, mapVars >>

\* appendAeonRequestOptions, lines 260-272
AeonOption ==
    /\ pc = "aeon"
    /\ availResp' = appendAeonRequestOptions(solrDoc, availResp)
    /\ applied' = Append(applied, RuleOrder[5])
    /\ pc' = "etas"
    /\ UNCHANGED << ilsResult, solrResult, solrDoc, v4Claims, response, Maps,
                    MapLookups >>
    /\ UNCHANGED << reserveVars, validateVars, createVars, mapVars >>

\* getAvailability, line 156
EmergencyAccess ==
    /\ pc = "etas"
    /\ availResp' = removeETASRequestOptions(solrDoc, availResp)
    /\ applied' = Append(applied, RuleOrder[6])
    /\ pc' = "map"
    /\ UNCHANGED << ilsResult, solrResult, solrDoc, v4Claims, response, Maps,
                    MapLookups >>
    /\ UNCHANGED << reserveVars, validateVars, createVars, mapVars >>

\* getAvailability, line 157
MapEnrichment ==
    /\ pc = "map"
    /\ availResp' = [availResp EXCEPT
                         !.Items = addMapInfo(@, Maps, MapLookups)]
    /\ applied' = Append(applied, RuleOrder[7])
    /\ pc' = "respond"
    /\ UNCHANGED << ilsResult, solrResult, solrDoc, v4Claims, response, Maps,
                    MapLookups >>
    /\ UNCHANGED << reserveVars, validateVars, createVars, mapVars >>

\* getAvailability, line 159
Respond ==
    /\ pc = "respond"
    /\ response' = [status |-> StatusOK, body |-> "availResp"]
    /\ pc' = "done"
    /\ UNCHANGED << ilsResult, availResp, solrResult, solrDoc, v4Claims,
                    applied, Maps, MapLookups >>
    /\ UNCHANGED << reserveVars, validateVars, createVars, mapVars >>

\* solrReservesResponse{}: the zero value
EmptyReservesResponse == [NumFound |-> 0, Docs |-> << >>]

\* no call of SolrGet by searchReserves yet
NoSearchResult ==
    handleAPIResponse(Nil, StatusOK, Body(FALSE, EmptyReservesResponse))

ReserveIdle ==
    /\ rpc = "idle"
    /\ tgtType = "instructor_name"
    /\ tgtQuery = ""
    /\ docs = << >>
    /\ out = << >>
    /\ searchResult = NoSearchResult
    /\ searchStatus = 0

\* nothing written to the gin context yet
NoValidateResp == [status |-> 0, json |-> FALSE, body |-> << >>]

ValidateIdle ==
    /\ vpc = "idle"
    /\ validateResult = handleAPIResponse(Nil, StatusOK, Body(FALSE, << >>))
    /\ validateClaims = FALSE
    /\ validateLookups = << >>
    /\ validateResp = NoValidateResp

\* reserveRequest{}: the zero value
EmptyReserveRequest ==
    [Request |-> [Library |-> "", Email |-> "", InstructorEmail |-> ""],
     Items |-> << >>, Video |-> << >>, NonVideo |-> << >>, MaxAvail |-> 0]

CreateIdle ==
    /\ cpc = "idle"
    /\ reserveReq = EmptyReserveRequest
    /\ emails = << >>
    /\ createResp = [status |-> 0, body |-> ""]

\* The requests that are in map enrichment at the same time
Requests == {"r1", "r2"}

\* One call of csvReader.Read: the record and whether an error came with it
Row(fields) == [line |-> fields, err |-> FALSE]

\* A row the CSV reader rejects (a bare quote in a field): nil record, error
RejectedRow == [line |-> << >>, err |-> TRUE]

\* A row with fewer fields than the first row: the reader returns the
\* record together with ErrFieldCount
ShortRow == [line |-> << "2", "/maps/ivy.png" >>, err |-> TRUE]

\* A lookup row with more fields than the first row: the reader returns the
\* record together with ErrFieldCount
LongRow == [line |-> << "*", "STACKS", "1", "" >>, err |-> TRUE]

\* A data file: ioutil.ReadFile fails (the file is missing or unreadable),
\* or the rows the CSV reader returns until io.EOF
UnreadableFile == [readErr |-> TRUE, rows |-> << >>]

DataFile(rows) == [readErr |-> FALSE, rows |-> rows]

MapsHeader == Row(<< "ID", "URL", "NAME" >>)

LookupsHeader == Row(<< "RANGE", "LOCATION", "MAP" >>)

\* The contents of ./data/maps.csv in the model
MapsFiles ==
    { UnreadableFile,
      DataFile(<< >>),
      DataFile(<< MapsHeader, Row(<< "1", "/maps/sc.png", "Small Library" >>) >>),
      DataFile(<< MapsHeader, Row(<< "1", "/maps/sc.png", "Small Library" >>),
                  RejectedRow >>),
      DataFile(<< MapsHeader, Row(<< "1", "/maps/sc.png", "Small Library" >>),
                  ShortRow >>) }

\* The contents of ./data/map_lookups.csv in the model: a wildcard row, a
\* row with a call-number range, a row that refers to a map that does not
\* exist, a location with a range row before its wildcard row, and rows
\* that come with an error
LookupsFiles ==
    { UnreadableFile,
      DataFile(<< LookupsHeader, Row(<< "*", "SC-STACKS", "1" >>),
                  Row(<< "A-C", "STACKS", "1" >>),
                  Row(<< "*", "SC-IVY", "9" >>) >>),
      DataFile(<< LookupsHeader, Row(<< "A-C", "STACKS", "1" >>),
                  Row(<< "*", "STACKS", "1" >>),
                  Row(<< "*", "SC-STACKS", "1" >>) >>),
      DataFile(<< LookupsHeader, Row(<< "*", "SC-STACKS", "1" >>),
                  RejectedRow >>),
      DataFile(<< LookupsHeader, Row(<< "*", "SC-STACKS", "1" >>),
                  LongRow >>) }

\* The files behind LoadedMaps and LoadedMapLookups
LoadedFiles ==
    [maps |-> DataFile(<< MapsHeader,
                          Row(<< "1", "/maps/sc.png", "Small Library" >>) >>),
     lookups |-> DataFile(<< LookupsHeader, Row(<< "*", "SC-STACKS", "1" >>),
                             Row(<< "A-C", "STACKS", "1" >>),
                             Row(<< "*", "SC-IVY", "9" >>) >>)]

RECURSIVE readRows(_, _, _)
\* The read loops of initMapLookups (lines 23-39 and 48-64): the rows
\* appended before io.EOF, or before line[0] or line[2] is out of range
readRows(rows, header, acc) ==
    IF rows = << >> THEN [table |-> acc, panics |-> FALSE]
    ELSE LET line == Head(rows).line
         IN  IF Len(line) = 0 THEN [table |-> acc, panics |-> TRUE]
             ELSE IF line[1] = header
                  THEN readRows(Tail(rows), header, acc)
                  ELSE IF Len(line) < 3
                       THEN [table |-> acc, panics |-> TRUE]
                       ELSE readRows(Tail(rows), header,
                                     Append(acc, SubSeq(line, 1, 3)))

\* lines 32-36
toMaps(table) ==
    [i \in 1..Len(table) |->
        [ID |-> table[i][1], MapURL |-> table[i][2], Name |-> table[i][3]]]

\* lines 57-61
toMapLookups(table) ==
    [i \in 1..Len(table) |->
        [CallNumberRange |-> table[i][1], Location |-> table[i][2],
         MapID |-> table[i][3]]]

\* initMapLookups: the two tables when it returns or panics
initMapLookups(files) ==
    IF files.maps.readErr
    THEN [Maps |-> << >>, MapLookups |-> << >>, panics |-> FALSE]
    ELSE LET m == readRows(files.maps.rows, "ID", << >>)
         IN  IF m.panics \/ files.lookups.readErr
             THEN [Maps |-> toMaps(m.table), MapLookups |-> << >>,
                   panics |-> m.panics]
             ELSE LET l == readRows(files.lookups.rows, "RANGE", << >>)
                  IN  [Maps |-> toMaps(m.table),
                       MapLookups |-> toMapLookups(l.table),
                       panics |-> l.panics]

\* The service has started and no request is in map enrichment
MapsIdle ==
    /\ boot = "running"
    /\ mapFiles = LoadedFiles
    /\ reqItems = [r \in Requests |-> << >>]
    /\ reqPos = [r \in Requests |-> 0]

Init ==
    AvailInit /\ ReserveIdle /\ ValidateIdle /\ CreateIdle /\ MapsIdle

Next ==
    \/ FetchInventory
    \/ SeedDisplayLabels
    \/ GetSolrDoc
    \/ ScanSubstitution
    \/ StreamingReserve
    \/ ArchivalMerge
    \/ AeonOption
    \/ EmergencyAccess
    \/ MapEnrichment
    \/ Respond

Spec == Init /\ [][Next]_vars

-----------------------------------------------------------------------------
(* The reserve grouping functions *)

\* The catalog records a reserve search can hit: id and title list
ReserveRecords ==
    { [ID |-> "r1", Title |-> << "Zoology" >>],
      [ID |-> "r2", Title |-> << "Algebra" >>],
      [ID |-> "r3", Title |-> << >>] }

\* The reserve tags of the model, "courseID|courseName|instructor"
ReserveTags ==
    { "C1|Bio|Smith", "C2|Art|Smith", "C1|Bio|Jones", "C3|Microbio|O. Smith",
      "C1|Bio" }

\* The searches of the model: the search type and the raw query
ReserveSearches ==
    { << "instructor_name", "smi" >>, << "course_name", "bio" >>,
      << "course_id", "c" >> }

\* the ways to cut the tag list ts into n consecutive lists, one per hit
RECURSIVE Cuts(_, _)
Cuts(ts, n) ==
    IF n = 0 THEN (IF ts = << >> THEN { << >> } ELSE {})
    ELSE UNION { { << SubSeq(ts, 1, k) >> \o rest :
                       rest \in Cuts(SubSeq(ts, k + 1, Len(ts)), n - 1) } :
                     k \in 0..Len(ts) }

\* the hits made of the records rs, the i-th carrying the tags cut[i]
Hits(rs, cut) ==
    [i \in 1..Len(rs) |->
         [ID |-> rs[i].ID, Title |-> rs[i].Title, ReserveInfo |-> cut[i]]]

\* the (hit, reserve tag) pairs in the order of the two nested loops
RECURSIVE Flatten(_)
Flatten(hits) ==
    IF hits = << >> THEN << >>
    ELSE [i \in 1..Len(Head(hits).ReserveInfo) |->
              [doc |-> Head(hits), reserve |-> Head(hits).ReserveInfo[i]]]
             \o Flatten(Tail(hits))

\* reserveItem of a hit; the joined author, call number and library are not
\* held by the model
reserveItem(doc) == [ID |-> doc.ID, Title |-> doc.Title[1]]

\* index of the entry of the accumulation map for key, 0 when absent.  The
\* map is held as the sequence of its entries [key, list]
Lookup(m, key) ==
    LET hits == { i \in 1..Len(m) : m[i].key = key }
    IN  IF hits = {} THEN 0 ELSE CHOOSE i \in hits : TRUE

\* InstructorPass that keeps a tag whose instructor holds the query anywhere
InstructorPassContains(m, tgtInstructor, doc, reserve) ==
    LET reserveInfo == Split(reserve, "|") IN
    IF Len(reserveInfo) < 3 THEN "panic"
    ELSE LET courseID == reserveInfo[1]
             courseName == reserveInfo[2]
             instructor == reserveInfo[3]
         IN  IF Index(ToLower(instructor), ToLower(tgtInstructor)) = -1 THEN m
             ELSE IF Len(doc.Title) = 0 THEN "panic"
             ELSE LET item == reserveItem(doc)
                      e == Lookup(m, instructor)
                  IN  IF e = 0
                      THEN Append(m, [key |-> instructor,
                                      list |-> << [CourseID |-> courseID,
                                                   CourseName |-> courseName,
                                                   Items |-> << item >>] >>])
                      ELSE LET instructorCourses == m[e].list
                               found == { i \in 1..Len(instructorCourses) :
                                              instructorCourses[i].CourseID = courseID }
                           IN  IF found = {} THEN m
                               ELSE LET c == CHOOSE i \in found :
                                                 \A j \in found : i <= j
                                    IN  [m EXCEPT ![e].list[c].Items =
                                                      Append(@, item)]

\* One pass of the loop body of extractInstructorReserves (lines 261-300) on
\* the map m: "panic" for an index out of range.  A course that is new for a
\* known instructor is appended to the local slice instructorCourses alone:
\* the slice in the map keeps its length, and the course and its item are
\* dropped at the end of the pass
InstructorPass(m, tgtInstructor, doc, reserve) ==
    LET reserveInfo == Split(reserve, "|") IN
    IF Len(reserveInfo) < 3 THEN "panic"
    ELSE LET courseID == reserveInfo[1]
             courseName == reserveInfo[2]
             instructor == reserveInfo[3]
         IN  IF Index(ToLower(instructor), ToLower(tgtInstructor)) # 0 THEN m
             ELSE IF Len(doc.Title) = 0 THEN "panic"
             ELSE LET item == reserveItem(doc)
                      e == Lookup(m, instructor)
                  IN  IF e = 0
                      THEN Append(m, [key |-> instructor,
                                      list |-> << [CourseID |-> courseID,
                                                   CourseName |-> courseName,
                                                   Items |-> << item >>] >>])
                      ELSE LET instructorCourses == m[e].list
                               found == { i \in 1..Len(instructorCourses) :
                                              instructorCourses[i].CourseID = courseID }
                           IN  IF found = {} THEN m
                               ELSE LET c == CHOOSE i \in found :
                                                 \A j \in found : i <= j
                                    IN  [m EXCEPT ![e].list[c].Items =
                                                      Append(@, item)]

\* One pass of the loop body of extractCourseReserves (lines 194-238)
CoursePass(m, tgtT, tgtCourse, doc, reserve) ==
    LET reserveInfo == Split(reserve, "|") IN
    IF Len(reserveInfo) < 3 THEN "panic"
    ELSE LET courseID == reserveInfo[1]
             courseName == reserveInfo[2]
             instructor == reserveInfo[3]
             courseKeyStr == IF tgtT = "course_name" THEN courseName
                             ELSE courseID
         IN  IF Index(ToLower(courseKeyStr), ToLower(tgtCourse)) # 0 THEN m
             ELSE IF Len(doc.Title) = 0 THEN "panic"
             ELSE LET item == reserveItem(doc)
                      courseKey == [ID |-> courseID, Name |-> courseName]
                      e == Lookup(m, courseKey)
                  IN  IF e = 0
                      THEN Append(m, [key |-> courseKey,
                                      list |-> << [InstructorName |-> instructor,
                                                   Items |-> << item >>] >>])
                      ELSE LET courseInstructors == m[e].list
                               found == { i \in 1..Len(courseInstructors) :
                                              courseInstructors[i].InstructorName
                                                  = instructor }
                           IN  IF found = {} THEN m
                               ELSE LET c == CHOOSE i \in found :
                                                 \A j \in found : i <= j
                                    IN  [m EXCEPT ![e].list[c].Items =
                                                      Append(@, item)]

RECURSIVE InstructorFold(_, _, _)
\* the two loops of extractInstructorReserves over the pairs
InstructorFold(m, tgtInstructor, pairs) ==
    IF pairs = << >> THEN m
    ELSE LET m1 == InstructorPass(m, tgtInstructor, Head(pairs).doc,
                                  Head(pairs).reserve)
         IN  IF m1 = "panic" THEN "panic"
             ELSE InstructorFold(m1, tgtInstructor, Tail(pairs))

RECURSIVE CourseFold(_, _, _, _)
\* the two loops of extractCourseReserves over the pairs
CourseFold(m, tgtT, tgtCourse, pairs) ==
    IF pairs = << >> THEN m
    ELSE LET m1 == CoursePass(m, tgtT, tgtCourse, Head(pairs).doc,
                              Head(pairs).reserve)
         IN  IF m1 = "panic" THEN "panic"
             ELSE CourseFold(m1, tgtT, tgtCourse, Tail(pairs))

\* the orders in which `for key, list := range raw` can visit n entries
RangeOrders(n) ==
    { p \in [1..n -> 1..n] : \A i, j \in 1..n : p[i] = p[j] => i = j }

\* The results extractInstructorReserves can return: one per iteration order
\* of the map; {} when it panics
extractInstructorReserves(tgtInstructor, hits) ==
    LET m == InstructorFold(<< >>, tgtInstructor, Flatten(hits))
    IN  IF m = "panic" THEN {}
        ELSE { [i \in 1..Len(m) |->
                    [InstructorName |-> m[p[i]].key, Courses |-> m[p[i]].list]] :
                   p \in RangeOrders(Len(m)) }

\* The results extractCourseReserves can return
extractCourseReserves(tgtT, tgtCourse, hits) ==
    LET m == CourseFold(<< >>, tgtT, tgtCourse, Flatten(hits))
    IN  IF m = "panic" THEN {}
        ELSE { [i \in 1..Len(m) |->
                    [CourseName |-> m[p[i]].key.Name, CourseID |-> m[p[i]].key.ID,
                     Instructors |-> m[p[i]].list]] :
                   p \in RangeOrders(Len(m)) }

\* A reserve search as it reaches searchReserves: a search type, valid or
\* not, and a raw query
ReserveSearch ==
    /\ rpc = "search"
    /\ \E q \in ReserveSearches \cup { << "title", "smi" >> } :
          tgtType = q[1] /\ tgtQuery = q[2]
    /\ docs = << >>
    /\ out = << >>
    /\ searchResult = NoSearchResult
    /\ searchStatus = 0

\* searchReserves, lines 129-171: reject an invalid search type and a
\* request without claims, run the catalog search and decode its answer.
\* A failed or undecodable search is logged and leaves no hits.  The hits of
\* an answer are at most MaxDocs different records that carry at most
\* MaxTags reserve tags together
SearchReserves ==
    /\ rpc = "search"
    /\ IF tgtType \notin {"instructor_name", "course_name", "course_id"}
       THEN /\ searchStatus' = StatusBadRequest
            /\ rpc' = "done"
            /\ UNCHANGED << docs, searchResult >>
       ELSE \/ /\ searchStatus' = StatusForbidden
               /\ rpc' = "done"
               /\ UNCHANGED << docs, searchResult >>
            \/ /\ \E r \in { handleAPIResponse(e, 0, NoSearchResult.bytes) :
                                e \in TransportErrors }
                            \cup { handleAPIResponse(Nil, st, NoSearchResult.bytes) :
                                       st \in {StatusInternalServerError,
                                               StatusServiceUnavailable, StatusOK} } :
                     /\ searchResult' = r
                     /\ docs' = Unmarshal(r.bytes, EmptyReservesResponse).Docs
               /\ rpc' = "extract"
               /\ UNCHANGED searchStatus
            \/ /\ \E rs \in InjectiveSeqsUpTo(ReserveRecords, MaxDocs) :
                     \E ts \in SeqsUpTo(ReserveTags, MaxTags) :
                        \E cut \in Cuts(ts, Len(rs)) :
                           /\ searchResult' =
                                  handleAPIResponse(Nil, StatusOK,
                                      Body(TRUE, [NumFound |-> Len(rs),
                                                  Docs |-> Hits(rs, cut)]))
                           /\ docs' = Unmarshal(searchResult'.bytes,
                                                EmptyReservesResponse).Docs
               /\ rpc' = "extract"
               /\ UNCHANGED searchStatus
    /\ UNCHANGED << tgtType, tgtQuery, out >>
    /\ UNCHANGED << availVars, validateVars, createVars, mapVars >>

\* searchReserves, lines 173-177
ExtractInstructor ==
    /\ rpc = "extract"
    /\ tgtType = "instructor_name"
    /\ LET results == extractInstructorReserves(tgtQuery, docs)
       IN  IF results = {}
           THEN /\ rpc' = "panic"
                /\ searchStatus' = StatusInternalServerError
                /\ UNCHANGED out
           ELSE /\ rpc' = "done"
                /\ searchStatus' = StatusOK
                /\ out' \in results
    /\ UNCHANGED << tgtType, tgtQuery, docs, searchResult >>
    /\ UNCHANGED << availVars, validateVars, createVars, mapVars >>

\* searchReserves, lines 179-180
ExtractCourse ==
    /\ rpc = "extract"
    /\ tgtType # "instructor_name"
    /\ LET results == extractCourseReserves(tgtType, tgtQuery, docs)
       IN  IF results = {}
           THEN /\ rpc' = "panic"
                /\ searchStatus' = StatusInternalServerError
                /\ UNCHANGED out
           ELSE /\ rpc' = "done"
                /\ searchStatus' = StatusOK
                /\ out' \in results
    /\ UNCHANGED << tgtType, tgtQuery, docs, searchResult >>
    /\ UNCHANGED << availVars, validateVars, createVars, mapVars >>

ReservesNext == SearchReserves \/ ExtractInstructor \/ ExtractCourse

ReservesInit ==
    AvailInit /\ ReserveSearch /\ ValidateIdle /\ CreateIdle /\ MapsIdle

ReservesSpec == ReservesInit /\ [][ReservesNext]_vars

-----------------------------------------------------------------------------
(* validateCourseReserves *)

\* The longest answer of the validation backend
MaxEntries == 2

\* The validateResponse entries the validation backend can answer with
ValidateEntries == [ID : {"u1", "u2"}, Reserve : BOOLEAN, IsVideo : BOOLEAN]

\* The outcomes of the validation POST
ILSConnectorPost ==
    LET garbage == Body(FALSE, << >>)
    IN  { handleAPIResponse(e, 0, garbage) : e \in TransportErrors }
          \cup { handleAPIResponse(Nil, st, garbage) :
                     st \in {StatusInternalServerError,
                             StatusServiceUnavailable} }
          \cup { handleAPIResponse(Nil, StatusOK, garbage) }
          \cup { handleAPIResponse(Nil, StatusOK, Body(TRUE, es)) :
                     es \in SeqsUpTo(ValidateEntries, MaxEntries) }

\* The catalog records of the ids to validate, which differ in the
\* streaming-video signal
ReserveCatalogRecords ==
    { SolrDocument(<< >>, << >>, pls[1], pls[2], pls[3], << >>, << >>,
                   [text |-> "", json |-> "syntax", items |-> << >>]) :
          pls \in { << << "video" >>, << "Internet Materials" >>, << >> >>,
                    << << "catalog" >>, << >>, << "Avalon Media" >> >>,
                    << << "video" >>, << "Stacks" >>, << >> >>,
                    << << >>, << >>, << "Avalon Media" >> >>,
                    << << >>, << >>, << >> >> } }

\* the nil *SolrDocument
NoRecord == [found |-> FALSE, doc |-> EmptySolrDocument]

\* The outcomes of svc.getSolrDoc(item.ID) as validateCourseReserves calls
\* it: nil, or a pointer to the catalog record
getSolrDoc ==
    { NoRecord } \cup { [found |-> TRUE, doc |-> d] : d \in ReserveCatalogRecords }

\* the condition of line 352, for a record with a pool
isVideoReserve(doc) ==
    (doc.Pool[1] = "video" /\ contains(doc.Location, "Internet materials"))
        \/ contains(doc.Source, "Avalon")

\* does the backend's entry send the handler to the catalog (line 349)
NeedsLookup(item) == item.Reserve = FALSE \/ item.IsVideo = FALSE

\* solrDoc.Pool[0] on an empty pool list: index out of range
reclassifyPanics(item, lookup) ==
    NeedsLookup(item) /\ lookup.found /\ Len(lookup.doc.Pool) = 0

\* reclassifyEntry that flags every entry it looked up, whatever its record
reclassifyEntryNoSignal(item, lookup) ==
    IF NeedsLookup(item) /\ lookup.found
    THEN [item EXCEPT !.IsVideo = TRUE, !.Reserve = TRUE]
    ELSE item

\* One pass of the loop of lines 348-359
reclassifyEntry(item, lookup) ==
    IF NeedsLookup(item) /\ lookup.found /\ isVideoReserve(lookup.doc)
    THEN [item EXCEPT !.IsVideo = TRUE, !.Reserve = TRUE]
    ELSE item

ValidateStart ==
    /\ vpc = "start"
    /\ validateResult = handleAPIResponse(Nil, StatusOK, Body(FALSE, << >>))
    /\ validateClaims = FALSE
    /\ validateLookups = << >>
    /\ validateResp = NoValidateResp

\* validateCourseReserves, lines 318-340: bind the request, POST the ids,
\* decode the answer
ValidatePost ==
    /\ vpc = "start"
    /\ \E bound \in BOOLEAN :
          IF ~ bound
          THEN /\ validateResp' = [status |-> StatusBadRequest,
                                   json |-> FALSE, body |-> << >>]
               /\ vpc' = "done"
               /\ UNCHANGED validateResult
          ELSE \E r \in ILSConnectorPost :
                  /\ validateResult' = r
                  /\ IF r.StatusCode # 0
                     THEN /\ validateResp' = [status |-> r.StatusCode,
                                              json |-> FALSE, body |-> << >>]
                          /\ vpc' = "done"
                     ELSE IF ~ r.bytes.parses
                     THEN /\ validateResp' =
                                 [status |-> StatusInternalServerError,
                                  json |-> FALSE, body |-> << >>]
                          /\ vpc' = "done"
                     ELSE /\ vpc' = "claims"
                          /\ UNCHANGED validateResp
    /\ UNCHANGED << validateClaims, validateLookups >>
    /\ UNCHANGED << availVars, reserveVars, createVars, mapVars >>

\* validateCourseReserves, lines 345-362: reclassify for a caller who can
\* place reserves, answer
ValidateReclassify ==
    /\ vpc = "claims"
    /\ LET resp == validateResult.bytes.data IN
       \E can \in BOOLEAN :
       \E ls \in [1..Len(resp) -> getSolrDoc] :
          /\ \A i \in 1..Len(resp) :
                 (~ can \/ ~ NeedsLookup(resp[i])) => ls[i] = NoRecord
          /\ validateClaims' = can
          /\ validateLookups' = ls
          /\ IF \E i \in 1..Len(resp) : reclassifyPanics(resp[i], ls[i])
             THEN validateResp' = [status |-> StatusInternalServerError,
                                   json |-> FALSE, body |-> << >>]
             ELSE validateResp' =
                      [status |-> StatusOK, json |-> TRUE,
                       body |-> [i \in 1..Len(resp) |->
                                     reclassifyEntry(resp[i], ls[i])]]
    /\ vpc' = "done"
    /\ UNCHANGED validateResult
    /\ UNCHANGED << availVars, reserveVars, createVars, mapVars >>

ValidateNext == ValidatePost \/ ValidateReclassify

ValidateInit ==
    AvailInit /\ ReserveIdle /\ ValidateStart /\ CreateIdle /\ MapsIdle

ValidateSpec == ValidateInit /\ [][ValidateNext]_vars

-----------------------------------------------------------------------------
(* createCourseReserves *)

\* The most items of a reserve request
MaxReqItems == 2

\* svc.CourseReserveEmail, svc.LawReserveEmail and svc.SMTP.Sender
CourseReserveEmail == "reserves@lib"

LawReserveEmail == "lawreserves@lib"

Sender == "no-reply@lib"

\* The items a client can submit, before their availability is looked up
RequestItems ==
    [CatalogKey : {"u1", "u2"}, IsVideo : BOOLEAN, Availability : { << >> }]

\* The requestParams of the model: the target library, the requester's
\* address (any string the client sends, the address of a reserve mailbox
\* included) and the instructor's, if one was supplied
RequestParams ==
    [Library : {"law", "LAW", "clemons"}, Email : {"pat@uni", "reserves@lib"},
     InstructorEmail : {"", "prof@uni"}]

\* What getItemAvailability leaves in reqItem.Availability: nothing when the
\* inventory lookup fails or does not decode, else one entry per copy
getItemAvailability ==
    { << >>,
      << [Library |-> "Clemons", Location |-> "Stacks",
          Availability |-> "On Shelf", CallNumber |-> "QA1"] >> }

RECURSIVE partitionItemsInverted(_, _, _)
\* partitionItems with the test of the video flag inverted
partitionItemsInverted(req, idx, avail) ==
    IF idx > Len(req.Items) THEN req
    ELSE LET itm == [req.Items[idx] EXCEPT !.Availability = avail[idx]]
             r1 == [req EXCEPT !.Items[idx] = itm,
                               !.MaxAvail = IF Len(itm.Availability) > @
                                            THEN Len(itm.Availability) ELSE @]
             r2 == IF ~ itm.IsVideo
                   THEN [r1 EXCEPT !.Video = Append(@, itm)]
                   ELSE [r1 EXCEPT !.NonVideo = Append(@, itm)]
         IN  partitionItemsInverted(r2, idx + 1, avail)

RECURSIVE partitionItems(_, _, _)
\* The loop of lines 381-395 from item idx on: the request with the buckets
\* and MaxAvail it ends with
partitionItems(req, idx, avail) ==
    IF idx > Len(req.Items) THEN req
    ELSE LET itm == [req.Items[idx] EXCEPT !.Availability = avail[idx]]
             r1 == [req EXCEPT !.Items[idx] = itm,
                               !.MaxAvail = IF Len(itm.Availability) > @
                                            THEN Len(itm.Availability) ELSE @]
             r2 == IF itm.IsVideo
                   THEN [r1 EXCEPT !.Video = Append(@, itm)]
                   ELSE [r1 EXCEPT !.NonVideo = Append(@, itm)]
         IN  partitionItems(r2, idx + 1, avail)

\* routeRecipients that tells the law library whatever its letter case
routeRecipientsAnyCase(req) ==
    IF ToLower(req.Library) = "law"
    THEN [to |-> << LawReserveEmail, req.Email >>
                     \o (IF req.InstructorEmail # ""
                         THEN << req.InstructorEmail >> ELSE << >>),
          cc |-> "", from |-> Sender]
    ELSE [to |-> << CourseReserveEmail >>,
          cc |-> IF req.InstructorEmail # "" THEN req.Email ELSE "",
          from |-> IF req.InstructorEmail # "" THEN req.InstructorEmail
                   ELSE req.Email]

\* to, cc and from of lines 437-459
routeRecipients(req) ==
    IF req.Library = "law"
    THEN [to |-> << LawReserveEmail, req.Email >>
                     \o (IF req.InstructorEmail # ""
                         THEN << req.InstructorEmail >> ELSE << >>),
          cc |-> "", from |-> Sender]
    ELSE [to |-> << CourseReserveEmail >>,
          cc |-> IF req.InstructorEmail # "" THEN req.Email ELSE "",
          from |-> IF req.InstructorEmail # "" THEN req.InstructorEmail
                   ELSE req.Email]

\* sendEmail: nil in dev mode, else what DialAndSend returns
sendEmail(devMode, dial) ==
    IF devMode THEN Nil ELSE dial

\* the bucket a template renders
Bucket(req, templateFile) ==
    IF templateFile = "reserves.txt" THEN req.NonVideo ELSE req.Video

\* what follows a template in the loop of line 417
AfterTemplate(templateFile) ==
    IF templateFile = "reserves.txt" THEN "reserves_video.txt" ELSE "respond"

CreateStart ==
    /\ cpc = "start"
    /\ reserveReq = EmptyReserveRequest
    /\ emails = << >>
    /\ createResp = [status |-> 0, body |-> ""]

\* createCourseReserves, lines 366-395: bind the request, look up the
\* availability of every item and put it in its bucket
CreatePartition ==
    /\ cpc = "start"
    /\ \/ /\ createResp' = [status |-> StatusBadRequest, body |-> "bind error"]
          /\ cpc' = "done"
          /\ UNCHANGED reserveReq
       \/ /\ \E params \in RequestParams :
             \E items \in SeqsUpTo(RequestItems, MaxReqItems) :
             \E avail \in [1..Len(items) -> getItemAvailability] :
                reserveReq' =
                    partitionItems([Request |-> params, Items |-> items,
                                    Video |-> << >>, NonVideo |-> << >>,
                                    MaxAvail |-> -1], 1, avail)
          /\ cpc' = "reserves.txt"
          /\ UNCHANGED createResp
    /\ UNCHANGED emails
    /\ UNCHANGED << availVars, reserveVars, validateVars, mapVars >>

\* CreateEmail that goes on to the next template after a failed sending
CreateEmailContinue ==
    /\ cpc \in {"reserves.txt", "reserves_video.txt"}
    /\ IF Len(Bucket(reserveReq, cpc)) = 0
       THEN /\ cpc' = AfterTemplate(cpc)
            /\ UNCHANGED << emails, createResp >>
       ELSE \/ /\ emails' = Append(emails,
                      [template |-> cpc, rendered |-> FALSE, sent |-> FALSE,
                       to |-> << >>, cc |-> "", from |-> ""])
               /\ createResp' = [status |-> StatusInternalServerError,
                                 body |-> "render error"]
               /\ cpc' = "done"
            \/ \E devMode \in BOOLEAN, dial \in {Nil, "dial error"} :
                  LET route == routeRecipients(reserveReq.Request)
                      sendErr == sendEmail(devMode, dial)
                  IN  /\ emails' = Append(emails,
                             [template |-> cpc, rendered |-> TRUE,
                              sent |-> sendErr = Nil,
                              to |-> route.to, cc |-> route.cc,
                              from |-> route.from])
                      /\ cpc' = AfterTemplate(cpc)
                      /\ UNCHANGED createResp
    /\ UNCHANGED reserveReq
    /\ UNCHANGED << availVars, reserveVars, validateVars, mapVars >>

\* createCourseReserves, lines 417-469: one pass of the loop over the two
\* templates: skip an empty bucket, render, route and send
CreateEmail ==
    /\ cpc \in {"reserves.txt", "reserves_video.txt"}
    /\ IF Len(Bucket(reserveReq, cpc)) = 0
       THEN /\ cpc' = AfterTemplate(cpc)
            /\ UNCHANGED << emails, createResp >>
       ELSE \/ /\ emails' = Append(emails,
                      [template |-> cpc, rendered |-> FALSE, sent |-> FALSE,
                       to |-> << >>, cc |-> "", from |-> ""])
               /\ createResp' = [status |-> StatusInternalServerError,
                                 body |-> "render error"]
               /\ cpc' = "done"
            \/ \E devMode \in BOOLEAN, dial \in {Nil, "dial error"} :
                  LET route == routeRecipients(reserveReq.Request)
                      sendErr == sendEmail(devMode, dial)
                  IN  /\ emails' = Append(emails,
                             [template |-> cpc, rendered |-> TRUE,
                              sent |-> sendErr = Nil,
                              to |-> route.to, cc |-> route.cc,
                              from |-> route.from])
                      /\ IF sendErr # Nil
                         THEN /\ createResp' =
                                     [status |-> StatusInternalServerError,
                                      body |-> sendErr]
                              /\ cpc' = "done"
                         ELSE /\ cpc' = AfterTemplate(cpc)
                              /\ UNCHANGED createResp
    /\ UNCHANGED reserveReq
    /\ UNCHANGED << availVars, reserveVars, validateVars, mapVars >>

\* createCourseReserves, line 470
CreateRespond ==
    /\ cpc = "respond"
    /\ createResp' = [status |-> StatusOK, body |-> "Reserve emails sent"]
    /\ cpc' = "done"
    /\ UNCHANGED << reserveReq, emails >>
    /\ UNCHANGED << availVars, reserveVars, validateVars, mapVars >>

CreateNext == CreatePartition \/ CreateEmail \/ CreateRespond

CreateInit ==
    AvailInit /\ ReserveIdle /\ ValidateIdle /\ CreateStart /\ MapsIdle

CreateSpec == CreateInit /\ [][CreateNext]_vars

-----------------------------------------------------------------------------
(* Service startup and the map enrichment of concurrent requests *)

\* The items of the documents that reach addMapInfo: the items of the
\* circulation backend, a merged item without a location, and an item the
\* backend sent with a map of its own
MapItems ==
    InventoryItems
      \cup { StoredItems[1],
             [Barcode |-> "X004", LibraryID |-> "ALDERMAN", SCNotes |-> "",
              HomeLocationID |-> "ANNEX",
              Map |-> [Name |-> "Annex", MapURL |-> "/maps/annex.png"]] }

ItemOf(barcode) == CHOOSE item \in MapItems : item.Barcode = barcode

\* The item lists of the documents that reach addMapInfo
RequestDocs ==
    { << >>,
      << ItemOf("X001"), ItemOf("X003") >>,
      << ItemOf("X003"), ItemOf("X002"), ItemOf("A001") >>,
      << ItemOf("X004"), ItemOf("X001") >> }

\* The handler is idle and the service has not started: the tables are nil
MapsBoot ==
    /\ pc = "idle"
    /\ ilsResult = handleAPIResponse(Nil, StatusOK,
                                     Body(FALSE, EmptyAvailabilityData))
    /\ availResp = EmptyAvailabilityData
    /\ solrResult = handleAPIResponse(Nil, StatusOK,
                                      Body(FALSE, EmptySolrResponse))
    /\ solrDoc = EmptySolrDocument
    /\ v4Claims = [HomeLibrary |-> "", CanPlaceReserve |-> FALSE]
    /\ applied = << >>
    /\ response = NoResponse
    /\ Maps = << >>
    /\ MapLookups = << >>
    /\ boot = "start"
    /\ mapFiles = [maps |-> UnreadableFile, lookups |-> UnreadableFile]
    /\ reqItems = [r \in Requests |-> << >>]
    /\ reqPos = [r \in Requests |-> 0]

\* intializeService, line 85: ctx.initMapLookups(); a panic here is not
\* recovered and ends the process
InitMapLookups ==
    /\ boot = "start"
    /\ \E fm \in MapsFiles, fl \in LookupsFiles :
          LET files == [maps |-> fm, lookups |-> fl]
              r == initMapLookups(files)
          IN  /\ mapFiles' = files
              /\ Maps' = r.Maps
              /\ MapLookups' = r.MapLookups
              /\ boot' = IF r.panics THEN "crashed" ELSE "running"
    /\ UNCHANGED << reqItems, reqPos >>
    /\ UNCHANGED << pc, ilsResult, availResp, solrResult, solrDoc, v4Claims,
                    applied, response >>
    /\ UNCHANGED << reserveVars, validateVars, createVars >>

\* getAvailability, line 157: the request r reaches addMapInfo with the
\* items of its document
RequestArrives(r) ==
    /\ boot = "running"
    /\ reqPos[r] = 0
    /\ \E items \in RequestDocs :
          reqItems' = [reqItems EXCEPT ![r] = items]
    /\ reqPos' = [reqPos EXCEPT ![r] = 1]
    /\ UNCHANGED << boot, mapFiles >>
    /\ UNCHANGED << availVars, reserveVars, validateVars, createVars >>

\* An addMapInfo loop body that remembers the row it found by moving it to
\* the front of svc.MapLookups
AddMapInfoCaching(r) ==
    /\ boot = "running"
    /\ reqPos[r] \in 1..Len(reqItems[r])
    /\ reqItems' = [reqItems EXCEPT
                        ![r][reqPos[r]] = addMapInfoItem(@, Maps, MapLookups)]
    /\ reqPos' = [reqPos EXCEPT ![r] = @ + 1]
    /\ LET hits == { i \in 1..Len(MapLookups) :
                         MapLookups[i].Location
                             = reqItems[r][reqPos[r]].HomeLocationID }
       IN  MapLookups' =
               IF hits = {} THEN MapLookups
               ELSE LET i == CHOOSE k \in hits : \A j \in hits : k <= j
                    IN  << MapLookups[i] >> \o RemoveAt(MapLookups, i)
    /\ UNCHANGED << boot, mapFiles >>
    /\ UNCHANGED << pc, ilsResult, availResp, solrResult, solrDoc, v4Claims,
                    applied, response, Maps >>
    /\ UNCHANGED << reserveVars, validateVars, createVars >>

\* addMapInfo, lines 71-94: one turn of the loop over the items of request r
AddMapInfo(r) ==
    /\ boot = "running"
    /\ reqPos[r] \in 1..Len(reqItems[r])
    /\ reqItems' = [reqItems EXCEPT
                        ![r][reqPos[r]] = addMapInfoItem(@, Maps, MapLookups)]
    /\ reqPos' = [reqPos EXCEPT ![r] = @ + 1]
    /\ UNCHANGED << boot, mapFiles >>
    /\ UNCHANGED << availVars, reserveVars, validateVars, createVars >>

MapsNext ==
    \/ InitMapLookups
    \/ \E r \in Requests : RequestArrives(r)
    \/ \E r \in Requests : AddMapInfo(r)

MapsInit == MapsBoot /\ ReserveIdle /\ ValidateIdle /\ CreateIdle

MapsSpec == MapsInit /\ [][MapsNext]_vars

-----------------------------------------------------------------------------
(* Claims about the availability pipeline *)

\* The inventory snapshot the document was decoded from
Snapshot == Unmarshal(ilsResult.bytes, EmptyAvailabilityData)

\* The position of a rule in the order of section 4.1
RulePos(name) == CHOOSE i \in 1..Len(RuleOrder) : RuleOrder[i] = name

HasRun(name) == \E i \in 1..Len(applied) : applied[i] = name

OptionTypes == {"hold", "scan", "directLink", "aeon", "videoReserve"}

IsSpecColl(item) == item.LibraryID = "SPEC-COLL"

\* C1 as stated: for every inventory snapshot, once the emergency-access
\* override has run, the request-option list holds at most one option of
\* type "hold".
C1_Original ==
    HasRun(RuleOrder[6]) => CountType(availResp.RequestOptions, "hold") <= 1

\* C1 amended: once the emergency-access override has run, the
\* request-option list holds as many options of type "hold" as the inventory
\* snapshot did, less one when the record has emergency access and the
\* snapshot held any; so it holds at most one when the snapshot held at most
\* one.
C1_AtMostOneHold ==
    HasRun(RuleOrder[6]) =>
        LET before == CountType(Snapshot.RequestOptions, "hold")
            after == CountType(availResp.RequestOptions, "hold")
        IN  /\ after = (IF Len(solrDoc.HathiETAS) > 0 /\ before > 0
                        THEN before - 1 ELSE before)
            /\ before <= 1 => after <= 1

\* The override has run on a snapshot with one hold option, whose slot now
\* holds the HathiTrust link
C1_Witness ==
    /\ pc = "map"
    /\ Len(solrDoc.HathiETAS) > 0
    /\ CountType(Snapshot.RequestOptions, "hold") = 1
    /\ CountType(availResp.RequestOptions, "hold") = 0
    /\ \E i \in 1..Len(availResp.RequestOptions) :
           availResp.RequestOptions[i] = hathiOption(solrDoc)

\* What C2 says of one run of the override on the options `opts` of a record
\* with emergency access, for the hold indices `at`: the link is at each of
\* them, the length and every other index are unchanged; without a hold
\* option the link is appended; with a URL the link carries the HathiTrust
\* label and the first URL
C2_Effect(opts, new, at) ==
    /\ \A i \in at :
           /\ new[i].Type = "directLink"
           /\ new[i].ItemOptions = << >> /\ ~ new[i].SignInRequired
           /\ Len(new) = Len(opts)
           /\ \A j \in 1..Len(opts) : j # i => new[j] = opts[j]
    /\ CountType(opts, "hold") = 0 =>
           /\ Len(new) = Len(opts) + 1
           /\ SubSeq(new, 1, Len(opts)) = opts
           /\ new[Len(new)].Type = "directLink"
    /\ Len(solrDoc.URL) > 0 =>
           \E i \in 1..Len(new) :
               /\ (i \in at \/ (at = {} /\ i = Len(new)))
               /\ new[i].Label = "Read via HathiTrust"
               /\ new[i].CreateURL = solrDoc.URL[1]

\* C2 as stated: with emergency access, for every index i that holds an
\* option of type "hold", the override puts the directLink option at i,
\* keeps the length and leaves every other index unchanged; with no hold
\* option the link is appended as the last element; with a URL its label is
\* "Read via HathiTrust" and its link the first URL.
C2_Original ==
    [][(pc = "etas" /\ Len(solrDoc.HathiETAS) > 0) =>
           C2_Effect(availResp.RequestOptions, availResp'.RequestOptions,
                     { i \in 1..Len(availResp.RequestOptions) :
                           availResp.RequestOptions[i].Type = "hold" })]_vars

\* C2 amended: the same, for i the index of the last option of type "hold"
\* (the only one when the list holds a single hold option).
C2_ReplaceLastHoldOrAppend ==
    [][(pc = "etas" /\ Len(solrDoc.HathiETAS) > 0) =>
           C2_Effect(availResp.RequestOptions, availResp'.RequestOptions,
                     { i \in 1..Len(availResp.RequestOptions) :
                           /\ availResp.RequestOptions[i].Type = "hold"
                           /\ \A j \in (i + 1)..Len(availResp.RequestOptions) :
                                  availResp.RequestOptions[j].Type # "hold" })]_vars

\* The override replaced the hold option of the snapshot, which was not the
\* last option, at its index, with the labelled link
C2_Witness ==
    /\ pc = "map"
    /\ Len(solrDoc.HathiETAS) > 0 /\ Len(solrDoc.URL) > 0
    /\ v4Claims.HomeLibrary # "HEALTHSCI"
    /\ Len(Snapshot.RequestOptions) >= 2
    /\ Snapshot.RequestOptions[1].Type = "hold"
    /\ Snapshot.RequestOptions[2].Type = "scan"
    /\ availResp.RequestOptions[1].Label = "Read via HathiTrust"
    /\ availResp.RequestOptions[1].CreateURL = "https://x"
    /\ availResp.RequestOptions[2] = Snapshot.RequestOptions[2]

\* C3: with emergency access the override leaves exactly the sub-list of the
\* previous items whose library id is SPEC-COLL, in their previous order;
\* without it the rule leaves the item list and the option list unchanged.
C3_ItemsFilteredToSpecColl ==
    [][pc = "etas" =>
           IF Len(solrDoc.HathiETAS) > 0
           THEN availResp'.Items = SelectSeq(availResp.Items, IsSpecColl)
           ELSE /\ availResp'.Items = availResp.Items
                /\ availResp'.RequestOptions = availResp.RequestOptions]_vars

\* The override has removed a circulating copy and kept a special-collections
\* copy that stood behind it
C3_Witness ==
    /\ pc = "map"
    /\ Len(solrDoc.HathiETAS) > 0
    /\ Len(Snapshot.Items) = 2
    /\ Snapshot.Items[1].LibraryID = "ALDERMAN"
    /\ Len(availResp.Items) >= 1
    /\ availResp.Items[1] = Snapshot.Items[2]

\* C4 as stated: if the snapshot's option list holds at most one option of
\* each type, then after every rule, for every record and caller, the
\* document's option list holds at most one option of each type.
C4_SingleInstancePerType ==
    (\A t \in OptionTypes : CountType(Snapshot.RequestOptions, t) <= 1)
        => \A t \in OptionTypes : CountType(availResp.RequestOptions, t) <= 1

\* C5: the rules run on the document in the order of section 4.1, each at
\* most once; a request answered with the document has run every
\* unconditional rule, the scan substitution exactly for a HEALTHSCI caller
\* and the streaming-reserve rule exactly for a caller who can place reserves.
C5_RulesInOrder ==
    /\ \A i, j \in 1..Len(applied) :
           i < j => RulePos(applied[i]) < RulePos(applied[j])
    /\ (pc = "done" /\ response.status = StatusOK) =>
           \A k \in 1..Len(RuleOrder) :
               HasRun(RuleOrder[k]) <=>
                   CASE k = 2 -> v4Claims.HomeLibrary = "HEALTHSCI"
                     [] k = 3 -> v4Claims.CanPlaceReserve
                     [] OTHER -> TRUE

\* A request of a HEALTHSCI caller who can place reserves has run all seven
\* rules
C5_Witness ==
    pc = "done" /\ response.status = StatusOK /\ applied = RuleOrder

\* C6: an inventory lookup that fails with 404 is not answered with an error:
\* the handler goes on from the empty document, on which the four display
\* labels are installed; a lookup that fails with another status ends the
\* request with that status, and neither the catalog lookup nor a rule runs.
C6_InventoryFailure ==
    /\ (ilsResult.StatusCode = StatusNotFound /\ pc # "start") =>
           /\ response.status # StatusNotFound
           /\ pc = "seed" =>
                  availResp = EmptyAvailabilityData /\ response = NoResponse
           /\ pc = "solr" =>
                  /\ availResp =
                         [EmptyAvailabilityData EXCEPT !.Display = DisplayLabels]
                  /\ Cardinality(availResp.Display) = 4
                  /\ response = NoResponse
    /\ (ilsResult.StatusCode \notin {0, StatusNotFound}) =>
           /\ pc = "done"
           /\ response.status = ilsResult.StatusCode
           /\ applied = << >>
           /\ solrDoc = EmptySolrDocument
           /\ availResp = EmptyAvailabilityData

\* A request whose inventory lookup failed with 404 was answered with the
\* document
C6_Witness ==
    /\ pc = "done"
    /\ ilsResult.StatusCode = StatusNotFound
    /\ response.status = StatusOK
    /\ availResp.Display = DisplayLabels
    /\ Snapshot.Items = << >>

\* The catalog lookup of the request was irregular: the fetch failed, the
\* payload did not parse, or it did not hold exactly one record
CatalogIrregular ==
    \/ solrResult.StatusCode # 0
    \/ ~ solrResult.bytes.parses
    \/ solrResult.bytes.data.NumFound # 1

\* C7 as stated: whatever the outcome of the catalog lookup, the request is
\* not aborted for that reason alone: the handler completes the pipeline and
\* answers with the document and status 200.  (A request that ends in the
\* streaming-reserve rule ends for another reason and is left out.)
C7_CatalogLookupNeverAborts ==
    (/\ pc = "done"
     /\ ilsResult.StatusCode \in {0, StatusNotFound}
     /\ CatalogIrregular
     /\ ~ (v4Claims.CanPlaceReserve /\ Len(solrDoc.Pool) = 0))
        => (response.status = StatusOK /\ HasRun(RuleOrder[7]))

\* C8 as stated: for every catalog record, also one whose multi-valued
\* fields are all empty, and every caller, every rule of the pipeline
\* completes without a runtime failure.
C8_RulesNeverFail ==
    (pc = "done" /\ HasRun(RuleOrder[1]) /\ v4Claims.HomeLibrary # "")
        => response # RecoveredPanic

\* C9: for a catalog record whose stored-availability blob is empty, the
\* archival merge leaves the item list and the titleID unchanged.
C9_NoBlobNoMerge ==
    [][(pc = "merge" /\ solrDoc.SCAvailability.text = "") =>
           /\ availResp'.Items = availResp.Items
           /\ availResp'.ID = availResp.ID]_vars

\* The archival merge has run for a record without a blob on a document
\* whose titleID is not the record's id
C9_Witness ==
    /\ pc = "aeon"
    /\ solrDoc.SCAvailability.text = ""
    /\ availResp.ID # solrDoc.ID
    /\ HasRun(RuleOrder[4])


\* the grouping key, the outer key and the inner key of a reserve tag
TagKeys(reserve) ==
    LET f == Split(reserve, "|")
    IN  IF tgtType = "instructor_name"
        THEN [key |-> f[3], outer |-> f[3], inner |-> f[1]]
        ELSE [key |-> IF tgtType = "course_name" THEN f[2] ELSE f[1],
              outer |-> << f[1], f[2] >>, inner |-> f[3]]

\* the (record id, outer key, inner key) triples of the hits and their
\* reserve tags whose grouping key starts with the query
MatchingTags ==
    LET pairs == Flatten(docs)
    IN  { [id |-> pairs[i].doc.ID, outer |-> TagKeys(pairs[i].reserve).outer,
           inner |-> TagKeys(pairs[i].reserve).inner] :
            i \in { j \in 1..Len(pairs) :
                      /\ Len(Split(pairs[j].reserve, "|")) >= 3
                      /\ Index(ToLower(TagKeys(pairs[j].reserve).key),
                               ToLower(tgtQuery)) = 0 } }

\* the (record id, outer key, inner key) triples the output tree holds
OutputTriples ==
    IF tgtType = "instructor_name"
    THEN UNION { UNION { { [id |-> out[g].Courses[c].Items[k].ID,
                            outer |-> out[g].InstructorName,
                            inner |-> out[g].Courses[c].CourseID] :
                             k \in 1..Len(out[g].Courses[c].Items) } :
                           c \in 1..Len(out[g].Courses) } :
                   g \in 1..Len(out) }
    ELSE UNION { UNION { { [id |-> out[g].Instructors[c].Items[k].ID,
                            outer |-> << out[g].CourseID, out[g].CourseName >>,
                            inner |-> out[g].Instructors[c].InstructorName] :
                             k \in 1..Len(out[g].Instructors[c].Items) } :
                           c \in 1..Len(out[g].Instructors) } :
                   g \in 1..Len(out) }

\* C10: when a grouping function has returned, every hit and every one of its
\* reserve tags whose grouping key starts with the query is in the output:
\* an outer group for the tag's outer key holds an inner group for the tag's
\* inner key, whose item list holds an item with the hit's id
C10_FoldComplete ==
    rpc = "done" => MatchingTags \subseteq OutputTriples

-----------------------------------------------------------------------------
(* Claims about the reserve grouping functions *)

\* key begins, letter case aside, with the query q
HasPrefixFold(key, q) ==
    /\ Len(q) <= Len(key)
    /\ ToLower(SubSeq(key, 1, Len(q))) = ToLower(q)

\* the (record id, outer key, inner key) triples of the well-formed reserve
\* tags whose grouping key begins with the query, letter case aside
RetainedTags ==
    LET pairs == Flatten(docs)
    IN  { [id |-> pairs[i].doc.ID, outer |-> TagKeys(pairs[i].reserve).outer,
           inner |-> TagKeys(pairs[i].reserve).inner] :
            i \in { j \in 1..Len(pairs) :
                      /\ Len(Split(pairs[j].reserve, "|")) >= 3
                      /\ HasPrefixFold(TagKeys(pairs[j].reserve).key,
                                       tgtQuery) } }

\* the outer keys of the output
OutputOuterKeys ==
    { IF tgtType = "instructor_name" THEN out[g].InstructorName
      ELSE << out[g].CourseID, out[g].CourseName >> : g \in 1..Len(out) }

\* C11: a reserve tag is retained exactly if its grouping key begins with the
\* query at position 0, letter case aside: every item of the output comes
\* from such a tag, a tag whose key holds the query at a later position
\* contributes nothing, and the outer key of every such tag has its group.
C11_PrefixFilter ==
    rpc = "done" =>
        /\ OutputTriples \subseteq RetainedTags
        /\ OutputOuterKeys = { t.outer : t \in RetainedTags }

\* A search for "smi" has grouped a record tagged for Smith and for O. Smith
\* under Smith alone
C11_Witness ==
    /\ rpc = "done"
    /\ tgtType = "instructor_name"
    /\ \E i \in 1..Len(docs) :
           docs[i].ReserveInfo = << "C3|Microbio|O. Smith", "C1|Bio|Smith" >>
    /\ OutputOuterKeys = { "Smith" }

\* the inner groups of the output, each with the key of its outer group, its
\* own key and its item list
OutputInnerGroups ==
    IF tgtType = "instructor_name"
    THEN UNION { { [outer |-> out[g].InstructorName,
                    inner |-> out[g].Courses[c].CourseID,
                    pos |-> c,
                    items |-> out[g].Courses[c].Items] :
                     c \in 1..Len(out[g].Courses) } : g \in 1..Len(out) }
    ELSE UNION { { [outer |-> << out[g].CourseID, out[g].CourseName >>,
                    inner |-> out[g].Instructors[c].InstructorName,
                    pos |-> c,
                    items |-> out[g].Instructors[c].Items] :
                     c \in 1..Len(out[g].Instructors) } : g \in 1..Len(out) }

\* C12 as stated: in the output a catalog record id appears at most once in
\* the item list of any (course, instructor) group, also when the record
\* carries several matching reserve tags for that pair.
C12_NoDuplicateItems ==
    rpc = "done" =>
        \A grp \in OutputInnerGroups :
            \A i, j \in 1..Len(grp.items) :
                grp.items[i].ID = grp.items[j].ID => i = j

\* the results the grouping function of the search can return for the hits
ResultsOf(hits) ==
    IF tgtType = "instructor_name"
    THEN extractInstructorReserves(tgtQuery, hits)
    ELSE extractCourseReserves(tgtType, tgtQuery, hits)

\* C13 as stated: for every permutation of the input record list and on
\* every run the grouping function returns the same result: the same outer
\* groups, inner groups and items, each in the same order.
C13_Deterministic ==
    rpc = "done" =>
        \A p \in RangeOrders(Len(docs)) :
            ResultsOf([i \in 1..Len(docs) |-> docs[p[i]]]) = { out }

\* the characters of the model's strings in byte order
ByteOrder ==
    " .0123456789ABCDEFGHIJKLMNOPQRSTUVWXYZabcdefghijklmnopqrstuvwxyz|"

RECURSIVE StrLess(_, _)
\* a < b as Go compares strings, byte by byte
StrLess(a, b) ==
    IF Len(b) = 0 THEN FALSE
    ELSE IF Len(a) = 0 THEN TRUE
    ELSE LET x == Index(ByteOrder, SubSeq(a, 1, 1))
             y == Index(ByteOrder, SubSeq(b, 1, 1))
         IN  IF x # y THEN x < y
             ELSE StrLess(SubSeq(a, 2, Len(a)), SubSeq(b, 2, Len(b)))

\* C14 as stated: in every result the inner groups of each outer group are
\* in ascending order of their name/id and the items of each inner group in
\* ascending order of title.
C14_Sorted ==
    rpc = "done" =>
        /\ \A g1, g2 \in OutputInnerGroups :
               (g1.outer = g2.outer /\ g1.pos < g2.pos)
                   => ~ StrLess(g2.inner, g1.inner)
        /\ \A grp \in OutputInnerGroups :
               \A i, j \in 1..Len(grp.items) :
                   i < j => ~ StrLess(grp.items[j].Title, grp.items[i].Title)

\* C15 as stated: the grouping functions complete without a runtime failure
\* for every input, also for a reserve tag that splits on "|" into fewer
\* than three fields and for a record whose title list is empty.
C15_GroupingNeverFails == rpc # "panic"

-----------------------------------------------------------------------------
(* Claims about validateCourseReserves *)

\* the entries the validation backend answered with
BackendEntries == Unmarshal(validateResult.bytes, << >>)

\* the video/Avalon signal of a catalog record: the first pool entry is
\* video and a location holds "Internet materials", or a source holds
\* "Avalon", letter case aside
HasVideoSignal(doc) ==
    \/ /\ Len(doc.Pool) > 0
       /\ doc.Pool[1] = "video"
       /\ \E i \in 1..Len(doc.Location) :
              Index(ToLower(doc.Location[i]), "internet materials") >= 0
    \/ \E i \in 1..Len(doc.Source) :
           Index(ToLower(doc.Source[i]), "avalon") >= 0

\* C16: the answer of validateCourseReserves has one entry per backend entry,
\* with the same ids in the same order; for a caller who cannot place
\* reserves every entry is the backend's; for one who can, an entry differs
\* from the backend's only if the backend flagged it ineligible or non-video
\* and its catalog record has the video/Avalon signal, and then both its
\* flags are true; no flag goes from true to false.
C16_ValidateReclassifies ==
    (vpc = "done" /\ validateResp.status = StatusOK) =>
        LET b == BackendEntries
            r == validateResp.body
        IN  /\ Len(r) = Len(b)
            /\ \A i \in 1..Len(b) : r[i].ID = b[i].ID
            /\ ~ validateClaims => r = b
            /\ \A i \in 1..Len(b) :
                   r[i] # b[i] =>
                       /\ validateClaims
                       /\ ~ b[i].Reserve \/ ~ b[i].IsVideo
                       /\ validateLookups[i].found
                       /\ HasVideoSignal(validateLookups[i].doc)
                       /\ r[i].Reserve /\ r[i].IsVideo
            /\ \A i \in 1..Len(b) :
                   /\ b[i].Reserve => r[i].Reserve
                   /\ b[i].IsVideo => r[i].IsVideo

\* A caller who can place reserves got an entry the backend had rejected
\* back as an eligible video, after an entry left as the backend flagged it
C16_Witness ==
    /\ vpc = "done"
    /\ validateResp.status = StatusOK
    /\ validateClaims
    /\ Len(BackendEntries) = 2
    /\ BackendEntries[1] = [ID |-> "u2", Reserve |-> TRUE, IsVideo |-> FALSE]
    /\ validateLookups[1].found
    /\ validateResp.body[1] = BackendEntries[1]
    /\ BackendEntries[2] = [ID |-> "u1", Reserve |-> FALSE, IsVideo |-> FALSE]
    /\ validateResp.body[2] = [ID |-> "u1", Reserve |-> TRUE, IsVideo |-> TRUE]

-----------------------------------------------------------------------------
(* Claims about the backend calls *)

\* C17 as stated: when a backend call of a request fails as
\* upstream-unavailable (a status other than 200 and 201, a timeout, a
\* refused connection), the handler's response carries the status code of
\* the failure and no result document: for the inventory lookup of
\* getAvailability other than 404, for the validation POST of
\* validateCourseReserves and for the catalog search of searchReserves.
C17_UpstreamFailurePassedThrough ==
    /\ (pc = "done" /\ ilsResult.StatusCode \notin {0, StatusNotFound}) =>
           (response.status = ilsResult.StatusCode /\ applied = << >>)
    /\ (vpc = "done" /\ validateResult.StatusCode # 0) =>
           (validateResp.status = validateResult.StatusCode
                /\ ~ validateResp.json)
    /\ (rpc \in {"done", "panic"} /\ searchResult.StatusCode # 0) =>
           searchStatus = searchResult.StatusCode

-----------------------------------------------------------------------------
(* Claims about createCourseReserves *)

IsVideoItem(itm) == itm.IsVideo

IsNonVideoItem(itm) == ~ itm.IsVideo

\* the templates for which an email was rendered and sent without error
SentTemplates ==
    { emails[i].template : i \in { j \in 1..Len(emails) :
                                       emails[j].rendered /\ emails[j].sent } }

\* every submitted item is in exactly one bucket, Video if its video flag is
\* true and NonVideo otherwise, in submission order
BucketsPartitionItems ==
    /\ reserveReq.Video = SelectSeq(reserveReq.Items, IsVideoItem)
    /\ reserveReq.NonVideo = SelectSeq(reserveReq.Items, IsNonVideoItem)
    /\ Len(reserveReq.Video) + Len(reserveReq.NonVideo) = Len(reserveReq.Items)

\* C18 as stated: every submitted item is in exactly one bucket by its video
\* flag, in submission order, and once the request has ended an email has
\* been rendered and sent for a bucket if and only if the bucket is
\* non-empty.
C18_Original ==
    /\ cpc \notin {"idle", "start"} => BucketsPartitionItems
    /\ cpc = "done" =>
           \A t \in {"reserves.txt", "reserves_video.txt"} :
               t \in SentTemplates <=> Len(Bucket(reserveReq, t)) > 0

\* C18 amended: every submitted item is in exactly one bucket by its video
\* flag, in submission order; an email is rendered or sent only for a
\* non-empty bucket and at most once for a bucket, and when the request
\* succeeds an email has been rendered and sent for exactly the non-empty
\* buckets; so a request sends 0, 1 or 2 emails and one without items none.
C18_BucketsAndEmails ==
    /\ cpc \notin {"idle", "start"} => BucketsPartitionItems
    /\ \A i \in 1..Len(emails) :
           /\ Len(Bucket(reserveReq, emails[i].template)) > 0
           /\ \A j \in 1..Len(emails) :
                  emails[i].template = emails[j].template => i = j
    /\ (cpc = "done" /\ createResp.status = StatusOK) =>
           \A t \in {"reserves.txt", "reserves_video.txt"} :
               t \in SentTemplates <=> Len(Bucket(reserveReq, t)) > 0
    /\ Len(emails) <= 2
    /\ Len(reserveReq.Items) = 0 => emails = << >>

\* A request for a book and a video, submitted in
\* this order, has succeeded with one email for each bucket
C18_Witness ==
    /\ cpc = "done"
    /\ createResp.status = StatusOK
    /\ Len(reserveReq.Items) = 2
    /\ ~ reserveReq.Items[1].IsVideo /\ reserveReq.Items[2].IsVideo
    /\ reserveReq.NonVideo = << reserveReq.Items[1] >>
    /\ reserveReq.Video = << reserveReq.Items[2] >>
    /\ SentTemplates = {"reserves.txt", "reserves_video.txt"}


\* the emails that were rendered, hence routed
Routed == { i \in 1..Len(emails) : emails[i].rendered }

InSeq(x, s) == \E k \in 1..Len(s) : s[k] = x

\* the routing rule, stated from the request
RoutedByRule(e, req) ==
    IF req.Library = "law"
    THEN /\ Len(e.to) = IF req.InstructorEmail = "" THEN 2 ELSE 3
         /\ e.to[1] = LawReserveEmail
         /\ e.to[2] = req.Email
         /\ req.InstructorEmail # "" => e.to[3] = req.InstructorEmail
         /\ e.from = Sender
         /\ e.cc = ""
    ELSE /\ e.to = << CourseReserveEmail >>
         /\ IF req.InstructorEmail # ""
            THEN e.from = req.InstructorEmail /\ e.cc = req.Email
            ELSE e.from = req.Email /\ e.cc = ""

Failed == { i \in 1..Len(emails) : ~ (emails[i].rendered /\ emails[i].sent) }

\* C20: the non-video email is rendered and sent before the video email;
\* the first render or send failure ends the request with status 500 and
\* is the last thing rendered or sent, nothing being sent again; the
\* success response is given only when the email of every non-empty bucket
\* was sent without error.
C20_OrderAndAbort ==
    /\ \A i, j \in 1..Len(emails) :
           (emails[i].template = "reserves.txt"
            /\ emails[j].template = "reserves_video.txt") => i < j
    /\ \A i \in Failed :
           /\ i = Len(emails)
           /\ cpc = "done"
           /\ createResp.status = StatusInternalServerError
    /\ \A i \in 1..Len(emails) : ~ emails[i].rendered => ~ emails[i].sent
    /\ createResp.status = StatusInternalServerError => cpc = "done"
    /\ createResp.status = StatusOK =>
           /\ Failed = {}
           /\ \A t \in {"reserves.txt", "reserves_video.txt"} :
                  Len(Bucket(reserveReq, t)) > 0 => t \in SentTemplates

\* The non-video email was sent, the video email then failed to send, and
\* the request has ended with status 500
C20_Witness ==
    /\ cpc = "done"
    /\ createResp.status = StatusInternalServerError
    /\ Len(emails) = 2
    /\ emails[1].template = "reserves.txt" /\ emails[1].sent
    /\ emails[2].template = "reserves_video.txt"
    /\ emails[2].rendered /\ ~ emails[2].sent

-----------------------------------------------------------------------------
(* Claims about the single rules of the availability pipeline *)

\* C23 as stated: for a catalog record with a non-empty stored-availability
\* blob the archival merge keeps the items present before as a prefix, in
\* their order, appends the decoded items after them in decoded order and
\* sets the titleID to the record's id; when the blob cannot be decoded
\* the item list is left unchanged; in both cases the request goes on to
\* the next rule without an error response.
C23_ArchivalMerge ==
    [][(pc = "merge" /\ solrDoc.SCAvailability.text # "") =>
           /\ availResp'.ID = solrDoc.ID
           /\ availResp'.Items =
                  IF solrDoc.SCAvailability.json = "ok"
                  THEN availResp.Items \o solrDoc.SCAvailability.items
                  ELSE availResp.Items
           /\ pc' = "aeon"
           /\ response' = response]_vars


IsNotScan(opt) == opt.Type # "scan"

\* all elements of a non-empty sequence but the last
Front(s) == SubSeq(s, 1, Len(s) - 1)

\* C24 as stated: for a caller whose home library is HEALTHSCI the option
\* list after updateHSLScanOptions holds no option of type "scan", ends
\* with a directLink option and keeps every other option in its previous
\* relative order; for every other caller the list is unchanged.
C24_Original ==
    [][pc = "claims" =>
           IF v4Claims'.HomeLibrary = "HEALTHSCI"
           THEN LET new == availResp'.RequestOptions
                IN  /\ Len(new) > 0
                    /\ new[Len(new)].Type = "directLink"
                    /\ Front(new) = SelectSeq(availResp.RequestOptions,
                                              IsNotScan)
           ELSE availResp' = availResp]_vars

\* C24 amended: for a caller whose home library is HEALTHSCI,
\* updateHSLScanOptions removes the first option of type "scan", if there
\* is one, and appends a directLink option as the last element; every
\* other option, a later scan option included, remains in its previous
\* relative order, so the list holds no scan option when at most one was
\* present; nothing else of the document changes.  For every other caller
\* the document is unchanged.
C24_ScanSubstitution ==
    [][pc = "claims" =>
           IF v4Claims'.HomeLibrary = "HEALTHSCI"
           THEN LET old == availResp.RequestOptions
                    new == availResp'.RequestOptions
                    scans == { k \in 1..Len(old) : old[k].Type = "scan" }
                IN  /\ Len(new) > 0
                    /\ new[Len(new)].Type = "directLink"
                    /\ new[Len(new)].Label = "Request a scan"
                    /\ IF scans = {}
                       THEN Front(new) = old
                       ELSE LET i == CHOOSE k \in scans :
                                         \A j \in scans : k <= j
                            IN  Front(new) = SubSeq(old, 1, i - 1)
                                               \o SubSeq(old, i + 1, Len(old))
                    /\ Cardinality(scans) <= 1 => CountType(new, "scan") = 0
                    /\ availResp'.Items = availResp.Items
                    /\ availResp'.ID = availResp.ID
           ELSE availResp' = availResp]_vars

\* A HEALTHSCI caller's document whose snapshot held a scan option between
\* two hold options: the scan option is gone, the directLink option is last
C24_Witness ==
    /\ pc = "stream"
    /\ v4Claims.HomeLibrary = "HEALTHSCI"
    /\ Len(Snapshot.RequestOptions) = 3
    /\ Snapshot.RequestOptions[2].Type = "scan"
    /\ Len(availResp.RequestOptions) = 3
    /\ availResp.RequestOptions[1] = Snapshot.RequestOptions[1]
    /\ availResp.RequestOptions[2] = Snapshot.RequestOptions[3]
    /\ availResp.RequestOptions[2].Type = "hold"
    /\ availResp.RequestOptions[3].Type = "directLink"


\* the streaming-video signal of a catalog record
StreamingSignal(doc) ==
    \/ /\ Len(doc.Pool) > 0
       /\ doc.Pool[1] = "video"
       /\ contains(doc.Location, "Internet materials")
    \/ contains(doc.Source, "Avalon")

\* C25 as stated: the streaming-reserve rule appends exactly one option of
\* type "videoReserve" with sign-in required, as the last element, exactly
\* when the caller can place reserves and the catalog record has the
\* streaming-video signal (pool "video" with location "Internet materials",
\* or source "Avalon"); all options present before stay at their indices,
\* and when the condition is false the option list is unchanged.
C25_StreamingReserve ==
    [][pc = "stream" =>
           LET old == availResp.RequestOptions
               new == availResp'.RequestOptions
           IN  IF v4Claims.CanPlaceReserve /\ StreamingSignal(solrDoc)
               THEN /\ Len(new) = Len(old) + 1
                    /\ SubSeq(new, 1, Len(old)) = old
                    /\ new[Len(new)].Type = "videoReserve"
                    /\ new[Len(new)].SignInRequired
               ELSE new = old]_vars


\* an item the Aeon option offers: a special-collections copy, or any item
\* of a catalog record that carries stored availability
AeonQualifies(item) ==
    item.LibraryID = "SPEC-COLL" \/ solrDoc.SCAvailability.text # ""

\* the catalog library list names Special Collections, in any case
NamesSpecialCollections(doc) ==
    \E i \in 1..Len(doc.Library) :
        Index(ToLower(doc.Library[i]), "special collections") # -1

\* C26: an option of type "aeon" is appended if and only if the catalog
\* library list contains "Special Collections" in any case; its item
\* choices are, in order and one per item, the items of the item list as
\* it stands after the archival merge whose library id is SPEC-COLL or
\* whose catalog record carries a non-empty stored-availability blob, and
\* no other item.
C26_AeonOption ==
    [][pc = "aeon" =>
           LET old == availResp.RequestOptions
               new == availResp'.RequestOptions
               chosen == SelectSeq(availResp.Items, AeonQualifies)
           IN  IF NamesSpecialCollections(solrDoc)
               THEN /\ Len(new) = Len(old) + 1
                    /\ SubSeq(new, 1, Len(old)) = old
                    /\ new[Len(new)].Type = "aeon"
                    /\ Len(new[Len(new)].ItemOptions) = Len(chosen)
                    /\ \A k \in 1..Len(chosen) :
                           /\ new[Len(new)].ItemOptions[k].Barcode
                                  = chosen[k].Barcode
                           /\ new[Len(new)].ItemOptions[k].Location
                                  = chosen[k].HomeLocationID
               ELSE new = old]_vars

\* The Aeon option of a record whose library list names Special Collections
\* in capitals and which carries stored availability: the circulating copy
\* of the snapshot and the two merged items are offered, in this order
C26_Witness ==
    /\ pc = "etas"
    /\ solrDoc.Library = << "Alderman", "SPECIAL COLLECTIONS" >>
    /\ Len(availResp.Items) = 3
    /\ availResp.Items[1].Barcode = "X003"
    /\ Len(availResp.RequestOptions) > 0
    /\ LET o == availResp.RequestOptions[Len(availResp.RequestOptions)]
       IN  /\ o.Type = "aeon"
           /\ Len(o.ItemOptions) = 3
           /\ o.ItemOptions[1].Barcode = "X003"
           /\ o.ItemOptions[2].Barcode = "A001"
           /\ o.ItemOptions[3].Barcode = "A002"


\* the indices of the Aeon options of the document
AeonOptions ==
    { i \in 1..Len(availResp.RequestOptions) :
          availResp.RequestOptions[i].Type = "aeon" }

\* the notes built from the catalog local notes: each note without the
\* leading library name, followed by ";" and a line feed
BuiltNotes(doc) == JoinNotes(doc.LocalNotes)

\* C27: the notes of an Aeon item choice are the item's own
\* special-collections note when it is non-empty; otherwise the notes built
\* from the catalog local notes when the record has at least one, cut to
\* at most 999 characters; otherwise "(no location notes)"; so no item
\* choice has an empty notes string.
C27_AeonNotes ==
    [][pc = "aeon" =>
           \A i \in { k \in 1..Len(availResp'.RequestOptions) :
                          availResp'.RequestOptions[k].Type = "aeon" } :
               LET choices == availResp'.RequestOptions[i].ItemOptions
                   chosen == SelectSeq(availResp.Items, AeonQualifies)
               IN  /\ Len(choices) = Len(chosen)
                   /\ \A k \in 1..Len(choices) :
                          /\ choices[k].SCNotes =
                                 IF chosen[k].SCNotes # ""
                                 THEN chosen[k].SCNotes
                                 ELSE IF Len(solrDoc.LocalNotes) = 0
                                      THEN "(no location notes)"
                                      ELSE IF Len(BuiltNotes(solrDoc)) <= 999
                                           THEN BuiltNotes(solrDoc)
                                           ELSE SubSeq(BuiltNotes(solrDoc),
                                                       1, 999)
                          /\ Len(solrDoc.LocalNotes) > 0 /\ chosen[k].SCNotes = ""
                                 => Len(choices[k].SCNotes) <= 999
                          /\ choices[k].SCNotes # ""]_vars

\* The Aeon option of the record with the long local note, for a snapshot
\* with a special-collections copy that has its own note and one that has
\* none: the first choice carries the item's note, the second the local
\* notes cut to 999 characters
C27_Witness ==
    /\ pc = "etas"
    /\ solrDoc.LocalNotes = << LongNote >>
    /\ Len(availResp.RequestOptions) > 0
    /\ LET o == availResp.RequestOptions[Len(availResp.RequestOptions)]
       IN  /\ o.Type = "aeon"
           /\ Len(o.ItemOptions) = 2
           /\ o.ItemOptions[1].Barcode = "X002"
           /\ o.ItemOptions[1].SCNotes = "Box 7"
           /\ o.ItemOptions[2].Barcode = "X001"
           /\ Len(o.ItemOptions[2].SCNotes) = 999

\* A special-collections copy without a note of its own, on a record
\* without local notes, is offered with "(no location notes)"
C27_NoNotesWitness ==
    /\ pc = "etas"
    /\ solrDoc.LocalNotes = << >>
    /\ \E i \in AeonOptions :
           \E k \in 1..Len(availResp.RequestOptions[i].ItemOptions) :
               /\ availResp.RequestOptions[i].ItemOptions[k].Barcode = "X001"
               /\ availResp.RequestOptions[i].ItemOptions[k].SCNotes
                      = "(no location notes)"


\* C29 as stated: when the inventory lookup fails with status 503, the
\* handler answers with status 503 and the message of the Sirsi-offline
\* branch, not with the generic retrieval-problem message.
C29_SirsiOffline ==
    (pc = "done" /\ ilsResult.StatusCode = StatusServiceUnavailable) =>
        /\ response.status = StatusServiceUnavailable
        /\ response.body = "Availability information is currently unavailable. Please try again later."


\* C30 as stated: in the document returned by getAvailability every item
\* choice of the "aeon" request option refers, by barcode, to an item that
\* is present in the document's final item list, for every catalog record.
C30_AeonChoicesPresent ==
    (pc = "done" /\ response.status = StatusOK) =>
        \A i \in AeonOptions :
            \A k \in 1..Len(availResp.RequestOptions[i].ItemOptions) :
                \E j \in 1..Len(availResp.Items) :
                    availResp.Items[j].Barcode =
                        availResp.RequestOptions[i].ItemOptions[k].Barcode

-----------------------------------------------------------------------------
(* Claims about the map tables *)

\* C21: for every interleaving of the requests, once initMapLookups has
\* returned no step writes the map tables Maps and MapLookups, and a step
\* of a request's map enrichment writes one item of its own document and
\* nothing of another request's.
C21_TablesReadOnly ==
    [][boot = "running" =>
           /\ Maps' = Maps
           /\ MapLookups' = MapLookups
           /\ mapFiles' = mapFiles
           /\ \A r \in Requests :
                  (reqPos[r] > 0 /\ reqPos'[r] # reqPos[r]) =>
                      /\ \A q \in Requests \ {r} : reqItems'[q] = reqItems[q]
                      /\ Len(reqItems'[r]) = Len(reqItems[r])
                      /\ \A k \in 1..Len(reqItems[r]) :
                             k # reqPos[r] => reqItems'[r][k] = reqItems[r][k]]_vars

\* Two requests are in map enrichment at the same time, each after its
\* first item and before its last, and the tables are as they were loaded
C21_Witness ==
    /\ boot = "running"
    /\ Maps = LoadedMaps
    /\ MapLookups = LoadedMapLookups
    /\ reqPos["r1"] = 2 /\ Len(reqItems["r1"]) = 3
    /\ reqPos["r2"] = 2 /\ Len(reqItems["r2"]) = 2
    /\ reqItems["r2"][1].Map.Name = "Small Library"
    /\ reqItems["r1"][1].Map.Name = "N/A"
    /\ reqItems["r1"][2].Map.Name = ""


\* loading a data file failed: it could not be read, or the CSV reader
\* reported an error for one of its rows
LoadFailure(file) ==
    file.readErr \/ \E i \in 1..Len(file.rows) : file.rows[i].err

\* the items map enrichment has visited
Enriched == { << r, k >> \in Requests \X (1..3) : k < reqPos[r] }

\* C22 as stated: for every outcome of loading the two map files (file
\* missing or unreadable, a row the CSV reader rejects) initMapLookups
\* returns and startup continues, and map enrichment then gives no item a
\* map name or URL from the tables.
C22_LoadFailureDegrades ==
    (/\ boot # "start"
     /\ LoadFailure(mapFiles.maps) \/ LoadFailure(mapFiles.lookups)) =>
        /\ boot = "running"
        /\ \A e \in Enriched :
               /\ reqItems[e[1]][e[2]].Map.Name = "N/A"
               /\ \A i \in 1..Len(Maps) :
                      reqItems[e[1]][e[2]].Map.MapURL # Maps[i].MapURL


\* the lookup rows of an item's home location, as indices
RowsOf(item) ==
    { i \in 1..Len(MapLookups) :
          MapLookups[i].Location = item.HomeLocationID }

\* the first lookup row of the item's home location is a wildcard row and
\* the map it refers to exists
HasMap(item) ==
    /\ RowsOf(item) # {}
    /\ LET first == CHOOSE i \in RowsOf(item) : \A j \in RowsOf(item) : i <= j
       IN  /\ MapLookups[first].CallNumberRange = "*"
           /\ \E m \in 1..Len(Maps) : Maps[m].ID = MapLookups[first].MapID

\* the first map entry the first lookup row of the item refers to
MapOf(item) ==
    LET first == CHOOSE i \in RowsOf(item) : \A j \in RowsOf(item) : i <= j
        ms == { m \in 1..Len(Maps) : Maps[m].ID = MapLookups[first].MapID }
    IN  Maps[CHOOSE m \in ms : \A n \in ms : m <= n]

\* C28: map enrichment gives every item a map name: the name and the URL of
\* the map entry that the first lookup row of the item's home location
\* refers to, when that row's call-number range is "*" and the entry
\* exists; in every other case (no row for the location, a first row with
\* another range, a missing map) the name is "N/A" and the rule sets no URL.
C28_MapEnrichment ==
    [][\A r \in Requests :
           (reqPos[r] > 0 /\ reqPos'[r] # reqPos[r]) =>
               LET item == reqItems[r][reqPos[r]]
                   after == reqItems'[r][reqPos[r]]
               IN  /\ after.Map.Name # ""
                   /\ IF HasMap(item)
                      THEN /\ after.Map.Name = MapOf(item).Name
                           /\ after.Map.MapURL = MapOf(item).MapURL
                      ELSE /\ after.Map.Name = "N/A"
                           /\ after.Map.MapURL = item.Map.MapURL
                   /\ after = [item EXCEPT !.Map = after.Map]]_vars

\* A request's enrichment is complete with tables in which the location
\* STACKS has a range row before its wildcard row: the special-collections
\* copy has the map of its wildcard row, the circulating copy "N/A"
C28_Witness ==
    /\ boot = "running"
    /\ Len(MapLookups) = 3
    /\ MapLookups[1].Location = "STACKS" /\ MapLookups[1].CallNumberRange = "A-C"
    /\ MapLookups[2].Location = "STACKS" /\ MapLookups[2].CallNumberRange = "*"
    /\ \E r \in Requests :
           /\ Len(reqItems[r]) = 2
           /\ reqPos[r] = 3
           /\ reqItems[r][1].HomeLocationID = "SC-STACKS"
           /\ reqItems[r][1].Map = [Name |-> "Small Library",
                                    MapURL |-> "/maps/sc.png"]
           /\ reqItems[r][2].HomeLocationID = "STACKS"
           /\ reqItems[r][2].Map = [Name |-> "N/A", MapURL |-> ""]

====
